---- MODULE Spec2Model ----
(***************************************************************************)
(* Audio Mix Composition Engine of IntelliMix (backend/ai/ai_main.py and   *)
(* backend/features/audio_merge.py).                                       *)
(*                                                                         *)
(* Times are integers in milliseconds.  Scores, loudness values and other  *)
(* floating point quantities of the source are fixed-point integers in     *)
(* thousandths (1.35 is 1350, -12.0 dB is -12000).                         *)
(***************************************************************************)
EXTENDS Integers, Sequences, FiniteSets, TLC

VARIABLES
    pc,                   \* position of the running function
    track_count,          \* len(track_sources)
    \* candidate selection, optimizer and timeline extender
    candidates_by_track,  \* track index -> ranked list of _SegmentCandidate
    selected_candidates,  \* selection returned by the optimizer
    track_index,          \* loop variable of the forward pass / the extender
    llm_selected,         \* track index -> index into the list (0: no entry)
    optimizer_enabled,    \* AI_ENABLE_TRANSITION_OPTIMIZER
    dp_scores,            \* one row per visited track: candidate -> score
    backpointers,         \* one row per visited track: candidate -> previous
    mix_plan,             \* _MixIntentPlan
    sequence,             \* the extender's sequence of candidates
    round_index,          \* the extender's round counter
    \* merge_audio
    audio_files,          \* lengths in ms of the loaded segments
    crossfade_duration,   \* the crossfade_duration argument
    combined_audio,       \* length in ms of combined_audio
    transition_index,     \* loop variable of the merge
    applied_crossfades,   \* effective_crossfade of each transition so far
    \* _generate_ai_intelligent
    allow_auto_retry,     \* AI_ENABLE_ENGINEER_AUTO_RETRY
    render_plans,         \* the plan of each render-and-merge run so far
    merged_file_path,     \* number of the render that wrote it (0: none)
    rendered,             \* what the last render-and-merge run produced
    reviews,              \* the _MixReviewResult of each review so far
    outcome,              \* what the call handed to its caller
    \* _build_track_segment_candidates
    track_source,         \* the forced window and the start hint of the track's plan
    track_audio,          \* the decoded track: its length and its loudness shape
    dsp_profile,          \* _TrackDSPProfile: beat interval and section boundaries
    target_duration_ms,   \* the target_duration_ms argument
    max_candidates,       \* AI_LLM_CANDIDATES_PER_TRACK
    seed_starts,          \* the seed start points of the search
    seed_index,           \* loop variable over seed_starts
    candidates,           \* the candidates the search has collected
    built_candidates,     \* the list the call returned
    \* _harmonic_transition_compatibility
    harmonic_pair,        \* the keys of the left and the right candidate
    harmonic_result,      \* the value returned (-1: not called yet)
    \* _render_candidate_sequence_segments
    candidate_sequence,   \* the clips to render, in timeline order
    segment_index,        \* loop variable of the renderer
    previous_tail_dbfs,   \* tail loudness of the previously rendered clip
    rendered_files        \* what was exported for each rendered clip

commonVars == <<pc, track_count>>
selectionVars == <<candidates_by_track, selected_candidates, track_index>>
optimizerVars == <<llm_selected, optimizer_enabled, dp_scores, backpointers>>
extenderVars == <<sequence, round_index>>
mergeVars == <<audio_files, crossfade_duration, combined_audio, transition_index,
               applied_crossfades>>
engineerVars == <<allow_auto_retry, render_plans, merged_file_path, rendered, reviews,
                  outcome>>

builderVars == <<track_source, track_audio, dsp_profile, target_duration_ms, max_candidates,
                 seed_starts, seed_index, candidates, built_candidates>>

scoringVars == <<harmonic_pair, harmonic_result>>

rendererVars == <<candidate_sequence, segment_index, previous_tail_dbfs, rendered_files>>

vars == <<commonVars, selectionVars, optimizerVars, mix_plan, extenderVars,
          mergeVars, engineerVars, builderVars, scoringVars, rendererVars>>

(***************************************************************************)
(* Bounds of the model.                                                    *)
(***************************************************************************)
MaxTracks == 3
MaxCandidates == 2

(***************************************************************************)
(* Helpers.                                                                *)
(***************************************************************************)
Min(a, b) == IF a <= b THEN a ELSE b
Max(a, b) == IF a >= b THEN a ELSE b
Abs(a) == IF a < 0 THEN -a ELSE a

\* _clamp: max(minimum, min(value, maximum))
Clamp(value, minimum, maximum) == Max(minimum, Min(value, maximum))

\* x * m / 1000 on thousandths
Scale(x, m) == (x * m) \div 1000

(***************************************************************************)
(* _SegmentCandidate.  The pool holds the windows the candidate lists of   *)
(* the optimizer runs are drawn from.                                      *)
(***************************************************************************)
Cand(s, e, en, dr, tq, bpm, ki, ks, kc, sa, wd) ==
    [start_ms |-> s, end_ms |-> e, energy_db |-> en, drop_strength |-> dr,
     transition_quality |-> tq, beat_interval_ms |-> 500, bpm |-> bpm,
     key_index |-> ki, key_scale |-> ks, key_confidence |-> kc,
     section_alignment |-> sa, waveform_dynamics |-> wd]

CandidatePool ==
    { Cand(30000, 60000,  -9000,  3000, 2400, 128000, 0, "major", 400, 1000, 3000),
      Cand(45000, 75000, -18000, -1000, 5280,  90000, 6, "minor", 200,  800, 6000),
      Cand(10000, 24000, -10000,  2000, 2775, 128000, 7, "major", 300, 1000, 3000) }

\* prompt_relevance of the track at each position
PromptRelevance(t) == IF t % 2 = 0 THEN 600 ELSE 0

\* _candidate_priority
CandidatePriority(c) ==
    c.transition_quality
    + Scale(c.drop_strength, 650)
    + Scale(c.energy_db, 50)
    + Scale(c.section_alignment, 900)
    + Scale(Min((c.waveform_dynamics * 1000) \div 6000, 1200), 450)

\* ranked lists of at most MaxCandidates distinct pool windows, best first
\* (the generator sorts by priority before it trims, ai_main.py:2471)
RankedLists ==
    { l \in UNION { [1..n -> CandidatePool] : n \in 0..MaxCandidates } :
        \A i \in 1..Len(l) : \A j \in 1..Len(l) :
            i < j => CandidatePriority(l[i]) > CandidatePriority(l[j]) }

Tracks == 0..(track_count - 1)

(***************************************************************************)
(* Environment configuration read by the optimizer.                        *)
(***************************************************************************)
PairWeight == 1350      \* AI_TRANSITION_PAIR_WEIGHT default
Stickiness == 750       \* AI_LLM_SELECTION_STICKINESS default

(***************************************************************************)
(* Scores.                                                                 *)
(***************************************************************************)
\* _candidate_unary_score; llm_id = 0 stands for None
CandidateUnaryScore(c, id, t, llm_id) ==
    LET duration_ms == c.end_ms - c.start_ms
        base == CandidatePriority(c) + Scale(PromptRelevance(t), 2100)
        penalised == IF duration_ms < 15000 THEN base - 700
                     ELSE IF duration_ms > 58000 THEN base - 500
                     ELSE base
        keyed == penalised + Scale(c.key_confidence, 200)
    IN  IF llm_id # 0 /\ id # llm_id THEN keyed - Stickiness ELSE keyed

\* a compatibility that takes the two scales for equal
HarmonicIgnoringScale(l, r) ==
    IF l.key_index < 0 \/ r.key_index < 0 THEN 620
    ELSE LET left_key == l.key_index % 12
             right_key == r.key_index % 12
             interval == Min((left_key - right_key) % 12, (right_key - left_key) % 12)
         IN  IF interval = 0 THEN 1000
             ELSE IF interval \in {5, 7} THEN 900
             ELSE IF interval \in {1, 2, 10, 11} THEN 720
             ELSE IF interval \in {3, 4, 8, 9} THEN 630
             ELSE 500

\* _harmonic_transition_compatibility
HarmonicTransitionCompatibility(l, r) ==
    IF l.key_index < 0 \/ r.key_index < 0 THEN 620
    ELSE LET left_key == l.key_index % 12
             right_key == r.key_index % 12
             interval == Min((left_key - right_key) % 12, (right_key - left_key) % 12)
             same_scale == l.key_scale = r.key_scale
         IN  IF interval = 0 /\ same_scale THEN 1000
             ELSE IF interval = 0 THEN 840
             ELSE IF interval \in {5, 7} /\ same_scale THEN 900
             ELSE IF interval \in {1, 2, 10, 11} THEN (IF same_scale THEN 720 ELSE 660)
             ELSE IF interval \in {3, 4, 8, 9} THEN (IF same_scale THEN 630 ELSE 550)
             ELSE 500

\* bpm of a candidate as _pair_transition_score reads it
EffectiveBpm(c) ==
    IF c.bpm > 0 THEN c.bpm ELSE (60000 * 1000) \div Max(1, c.beat_interval_ms)

\* _pair_transition_score
PairTransitionScore(l, r) ==
    LET tempo_similarity ==
            (Min(EffectiveBpm(l), EffectiveBpm(r)) * 1000) \div Max(EffectiveBpm(l), EffectiveBpm(r))
        energy_score == 1000 - Clamp((Abs(l.energy_db - r.energy_db) * 1000) \div 9000, 0, 1000)
        drop_score == 1000 - Clamp((Abs(r.drop_strength - l.drop_strength) * 1000) \div 4000, 0, 1000)
        harmonic_score == HarmonicTransitionCompatibility(l, r)
        structure_score == (l.section_alignment + r.section_alignment) \div 2
        dynamics_score == 1000 - Clamp((Abs(l.waveform_dynamics - r.waveform_dynamics) * 1000) \div 8000, 0, 1000)
    IN  Scale(tempo_similarity, 1100) + Scale(harmonic_score, 1250)
        + Scale(energy_score, 900) + Scale(drop_score, 650)
        + Scale(structure_score, 550) + Scale(dynamics_score, 450)

\* first index of s holding the largest value (Python's max keeps the first)
RECURSIVE ArgMaxFrom(_, _, _)
ArgMaxFrom(s, i, best) ==
    IF i > Len(s) THEN best
    ELSE ArgMaxFrom(s, i + 1, IF s[i] > s[best] THEN i ELSE best)
ArgMax(s) == ArgMaxFrom(s, 2, 1)

\* _default_candidate_selection, for a track that has candidates
DefaultCandidateIndex(t) ==
    ArgMax([i \in 1..Len(candidates_by_track[t]) |->
               CandidatePriority(candidates_by_track[t][i])])

(***************************************************************************)
(* Values of the variables a run does not use.                             *)
(***************************************************************************)
\* target_total_duration_seconds = 0 and global_crossfade_seconds = -1 stand
\* for None (a plan's target is None or within [60, 3600], a crossfade is
\* None or within [0, 8])
Plan(target_segment, target_total, global_crossfade, transition_crossfades) ==
    [target_segment_duration_seconds |-> target_segment,
     target_total_duration_seconds |-> target_total,
     global_crossfade_seconds |-> global_crossfade,
     transition_crossfade_seconds |-> transition_crossfades]

NoPlan == Plan(0, 0, -1, <<>>)

NoOutput == [duration_ms |-> 0, loudness_db |-> 0, split_count |-> 0, file |-> "none"]

IdleOptimizer ==
    /\ llm_selected = <<>>
    /\ optimizer_enabled = FALSE
    /\ dp_scores = <<>>
    /\ backpointers = <<>>

IdleSelection ==
    /\ candidates_by_track = <<>>
    /\ selected_candidates = <<>>
    /\ track_index = 0

IdleExtender ==
    /\ sequence = <<>>
    /\ round_index = 0

IdleMerge ==
    /\ audio_files = <<>>
    /\ crossfade_duration = [kind |-> "single", value |-> 0]
    /\ combined_audio = 0
    /\ transition_index = 0
    /\ applied_crossfades = <<>>

IdleEngineer ==
    /\ allow_auto_retry = FALSE
    /\ render_plans = <<>>
    /\ merged_file_path = 0
    /\ rendered = NoOutput
    /\ reviews = <<>>
    /\ outcome = [kind |-> "none"]

NoTrackSource ==
    [forced_start_ms |-> -1, forced_end_ms |-> -1, anchor_ratio |-> -1, suggested_start |-> 0]

NoAudio == [duration_ms |-> 0, shape |-> "flat"]

NoProfile == [beat_interval_ms |-> 500, section_boundaries_ms |-> <<>>]

\* key_index -1 with scale "unknown" is a candidate without a key
NoKey == [key_index |-> -1, key_scale |-> "unknown"]

IdleScoring ==
    /\ harmonic_pair = <<NoKey, NoKey>>
    /\ harmonic_result = -1

\* previous_tail_dbfs: None
NoTail == [known |-> FALSE, dbfs |-> 0]

IdleRenderer ==
    /\ candidate_sequence = <<>>
    /\ segment_index = 0
    /\ previous_tail_dbfs = NoTail
    /\ rendered_files = <<>>

IdleBuilder ==
    /\ track_source = NoTrackSource
    /\ track_audio = NoAudio
    /\ dsp_profile = NoProfile
    /\ target_duration_ms = 0
    /\ max_candidates = 0
    /\ seed_starts = <<>>
    /\ seed_index = 0
    /\ candidates = <<>>
    /\ built_candidates = <<>>

(***************************************************************************)
(* _select_candidates_with_llm followed by _optimize_candidate_transitions *)
(* (ai_main.py:3198-3199).                                                 *)
(***************************************************************************)
NoSelection == [t \in Tracks |-> 0]

OtherThanOptimizer == <<mix_plan, extenderVars, mergeVars, engineerVars, builderVars,
      scoringVars, rendererVars>>

InitOptimizer ==
    /\ IdleScoring
    /\ IdleRenderer
    /\ IdleBuilder
    /\ pc = "select"
    /\ track_count \in 1..MaxTracks
    /\ candidates_by_track \in [Tracks -> RankedLists]
    /\ llm_selected = NoSelection
    /\ optimizer_enabled \in BOOLEAN
    /\ dp_scores = <<>>
    /\ backpointers = <<>>
    /\ track_index = 0
    /\ selected_candidates = NoSelection
    /\ mix_plan = NoPlan
    /\ IdleExtender
    /\ IdleMerge
    /\ IdleEngineer

\* _select_candidates_with_llm: the default selection is computed first
\* (max() over an empty list raises ValueError); the LLM may then replace
\* the choice of any track by any candidate of that track.
SelectCandidatesWithLlm ==
    /\ pc = "select"
    /\ IF \E t \in Tracks : Len(candidates_by_track[t]) = 0
       THEN /\ pc' = "raised"
            /\ UNCHANGED llm_selected
       ELSE /\ \E choice \in [Tracks -> 1..MaxCandidates] :
                  /\ \A t \in Tracks : choice[t] <= Len(candidates_by_track[t])
                  /\ llm_selected' = choice
            /\ pc' = "optimize"
    /\ UNCHANGED <<track_count, selectionVars, optimizer_enabled, dp_scores, backpointers>>
    /\ UNCHANGED OtherThanOptimizer

\* total_score with the pair term left out
TotalScoreWithoutPair(t, i, j, prev_row) ==
    prev_row[j]
    + CandidateUnaryScore(candidates_by_track[t][i], i, t, llm_selected[t])

\* total_score of reaching candidate i of track t from candidate j of track t-1
TotalScore(t, i, j, prev_row) ==
    prev_row[j]
    + CandidateUnaryScore(candidates_by_track[t][i], i, t, llm_selected[t])
    + Scale(PairTransitionScore(candidates_by_track[t - 1][j], candidates_by_track[t][i]),
            PairWeight)

\* best_prev_id of candidate i of track t: the first previous candidate with
\* the largest total_score (the update is a strict >)
BestPrev(t, i, prev_row) ==
    ArgMax([j \in 1..Len(candidates_by_track[t - 1]) |-> TotalScore(t, i, j, prev_row)])

\* first_scores
FirstScores ==
    [i \in 1..Len(candidates_by_track[0]) |->
        CandidateUnaryScore(candidates_by_track[0][i], i, 0, llm_selected[0])]

\* current_scores of track t
CurrentScores(t, prev_row) ==
    [i \in 1..Len(candidates_by_track[t]) |->
        TotalScore(t, i, BestPrev(t, i, prev_row), prev_row)]

\* current_prev of track t
CurrentPrev(t, prev_row) ==
    [i \in 1..Len(candidates_by_track[t]) |-> BestPrev(t, i, prev_row)]

\* the early returns hand back the upstream selection
ReturnLlmSelected ==
    /\ selected_candidates' = llm_selected
    /\ pc' = "done"
    /\ UNCHANGED <<dp_scores, backpointers, track_index>>

\* _optimize_candidate_transitions up to the first row of the table
OptimizeStart ==
    /\ pc = "optimize"
    /\ IF track_count <= 1 \/ ~optimizer_enabled \/ Len(candidates_by_track[0]) = 0
       THEN ReturnLlmSelected
       ELSE /\ dp_scores' = <<FirstScores>>
            /\ backpointers' = <<[i \in 1..Len(candidates_by_track[0]) |-> 0]>>
            /\ track_index' = 1
            /\ pc' = "forward"
            /\ UNCHANGED selected_candidates
    /\ UNCHANGED <<track_count, candidates_by_track, llm_selected, optimizer_enabled>>
    /\ UNCHANGED OtherThanOptimizer

\* one iteration of the forward pass (for track_index in range(1, n))
OptimizeForward ==
    /\ pc = "forward"
    /\ track_index < track_count
    /\ IF Len(candidates_by_track[track_index]) = 0
          \/ Len(candidates_by_track[track_index - 1]) = 0
       THEN ReturnLlmSelected
       ELSE /\ dp_scores' = Append(dp_scores, CurrentScores(track_index, dp_scores[track_index]))
            /\ backpointers' = Append(backpointers, CurrentPrev(track_index, dp_scores[track_index]))
            /\ track_index' = track_index + 1
            /\ UNCHANGED <<pc, selected_candidates>>
    /\ UNCHANGED <<track_count, candidates_by_track, llm_selected, optimizer_enabled>>
    /\ UNCHANGED OtherThanOptimizer

\* resolved_ids: the best last candidate, then the backpointers down to track 0
RECURSIVE ResolveFrom(_, _)
ResolveFrom(t, resolved) ==
    IF t = 0 THEN resolved
    ELSE ResolveFrom(t - 1,
            [resolved EXCEPT ![t - 1] =
                IF resolved[t] = 0 THEN 0 ELSE backpointers[t + 1][resolved[t]]])

\* backtracking that starts from the first candidate of the last track
ResolvedIdsFromFirst ==
    LET last == track_count - 1
    IN  ResolveFrom(last, [NoSelection EXCEPT ![last] = 1])

ResolvedIds ==
    LET last == track_count - 1
    IN  ResolveFrom(last, [NoSelection EXCEPT ![last] = ArgMax(dp_scores[last + 1])])

\* an end of the optimizer that keeps the upstream selection whatever the
\* table says
BacktrackKeepingPreferred ==
    /\ pc = "forward"
    /\ track_index = track_count
    /\ selected_candidates' = llm_selected
    /\ pc' = "done"
    /\ UNCHANGED <<track_count, candidates_by_track, llm_selected, optimizer_enabled,
                   dp_scores, backpointers, track_index>>
    /\ UNCHANGED OtherThanOptimizer

\* the end of _optimize_candidate_transitions: backtracking and the result
OptimizeBacktrack ==
    /\ pc = "forward"
    /\ track_index = track_count
    /\ IF \E t \in Tracks : ResolvedIds[t] = 0
       THEN selected_candidates' = llm_selected
       ELSE selected_candidates' = ResolvedIds
    /\ pc' = "done"
    /\ UNCHANGED <<track_count, candidates_by_track, llm_selected, optimizer_enabled,
                   dp_scores, backpointers, track_index>>
    /\ UNCHANGED OtherThanOptimizer

NextOptimizer ==
    \/ SelectCandidatesWithLlm
    \/ OptimizeStart
    \/ OptimizeForward
    \/ OptimizeBacktrack

SpecOptimizer == InitOptimizer /\ [][NextOptimizer]_vars

(***************************************************************************)
(* Properties of the sequence optimizer.                                   *)
(***************************************************************************)
\* total score of a choice of one candidate per track
RECURSIVE PathScoreUpTo(_, _)
PathScoreUpTo(path, t) ==
    LET unary == CandidateUnaryScore(candidates_by_track[t][path[t]], path[t], t, llm_selected[t])
    IN  IF t = 0 THEN unary
        ELSE PathScoreUpTo(path, t - 1) + unary
             + Scale(PairTransitionScore(candidates_by_track[t - 1][path[t - 1]],
                                         candidates_by_track[t][path[t]]), PairWeight)

PathScore(path) == PathScoreUpTo(path, track_count - 1)

\* every choice of one candidate per track
AllPaths ==
    { p \in [Tracks -> 1..MaxCandidates] : \A t \in Tracks : p[t] <= Len(candidates_by_track[t]) }

\* the path that takes each track's highest-priority candidate independently
GreedyPath == [t \in Tracks |-> DefaultCandidateIndex(t)]

IsPath(sel) == \A t \in Tracks : sel[t] \in 1..Len(candidates_by_track[t])

OptimizerRan ==
    /\ pc = "done"
    /\ optimizer_enabled
    /\ track_count >= 2

\* C1: with the optimizer enabled, at least 2 tracks and at least 2
\* candidates per track, the total score of the returned path is at least
\* the total score of the greedy highest-priority path.
C1_OptimizedAtLeastGreedy ==
    (OptimizerRan /\ \A t \in Tracks : Len(candidates_by_track[t]) >= 2)
        => /\ IsPath(selected_candidates)
           /\ PathScore(selected_candidates) >= PathScore(GreedyPath)

\* C1 witness: a finished run on 2-candidate tracks in which the optimizer
\* left the greedy path for a strictly better one.
C1_Witness ==
    /\ OptimizerRan
    /\ \A t \in Tracks : Len(candidates_by_track[t]) >= 2
    /\ IsPath(selected_candidates)
    /\ PathScore(selected_candidates) > PathScore(GreedyPath)

\* C2 as claimed: whenever every track has at least one candidate the
\* returned selection is one candidate per track and no choice of one
\* candidate per track has a strictly higher total score.
C2_Original ==
    (pc = "done" /\ \A t \in Tracks : Len(candidates_by_track[t]) >= 1)
        => /\ IsPath(selected_candidates)
           /\ \A p \in AllPaths : PathScore(p) <= PathScore(selected_candidates)

\* C2 amended: with the optimizer enabled and at least two tracks, each with
\* at least one candidate, the returned selection is one candidate per
\* track, each from its own list, and has the maximal total score.
C2_GlobalMaximum ==
    (OptimizerRan /\ \A t \in Tracks : Len(candidates_by_track[t]) >= 1)
        => /\ IsPath(selected_candidates)
           /\ \A p \in AllPaths : PathScore(p) <= PathScore(selected_candidates)

\* C2 witness: a finished three-track run whose result, reached through the
\* backpointers, is neither the greedy path nor the upstream selection.
C2_Witness ==
    /\ OptimizerRan
    /\ track_count = 3
    /\ Len(backpointers) = 3
    /\ IsPath(selected_candidates)
    /\ selected_candidates # GreedyPath
    /\ selected_candidates # llm_selected
    /\ \E p \in AllPaths : PathScore(p) < PathScore(selected_candidates)

(***************************************************************************)
(* merge_audio (features/audio_merge.py).  A segment is its length in ms;  *)
(* AudioSegment.append(seg, crossfade=c) yields len(a) + len(b) - c.       *)
(***************************************************************************)
MaxMergeSegments == 3

SegmentLengths == {1000, 3000, 5000}
CrossfadeValues == {-500, 0, 1200, 3000, 8000}

\* the crossfade_duration argument: one number or a list of numbers
CrossfadeArguments ==
    { [kind |-> "single", value |-> v] : v \in CrossfadeValues }
    \cup { [kind |-> "list", values |-> l] :
             l \in UNION { [1..n -> CrossfadeValues] : n \in 0..(MaxMergeSegments - 1) } }

\* raw_values extended with its last value up to transition_count entries
PadToCount(raw_values, transition_count) ==
    [i \in 1..transition_count |->
        IF i <= Len(raw_values) THEN raw_values[i] ELSE raw_values[Len(raw_values)]]

\* _normalized_crossfades
NormalizedCrossfades(cd, transition_count) ==
    IF transition_count <= 0 THEN <<>>
    ELSE IF cd.kind = "list"
         THEN LET raw == [i \in 1..Len(cd.values) |-> Max(0, cd.values[i])]
                  raw_values == IF Len(raw) = 0 THEN <<0>> ELSE raw
              IN  PadToCount(raw_values, transition_count)
         ELSE [i \in 1..transition_count |-> Max(0, cd.value)]

\* effective_crossfade of appending a segment of length audio
EffectiveCrossfade(requested_crossfade, combined, audio) ==
    LET max_allowed_crossfade == Max(0, Min(combined, audio) - 1)
    IN  Min(requested_crossfade, max_allowed_crossfade)

OtherThanMerge ==
    <<track_count, selectionVars, optimizerVars, mix_plan, extenderVars, engineerVars,
      builderVars,
      scoringVars, rendererVars>>

InitMerge ==
    /\ IdleScoring
    /\ IdleRenderer
    /\ IdleBuilder
    /\ pc = "load"
    /\ track_count = 0
    /\ audio_files \in UNION { [1..n -> SegmentLengths] : n \in 0..MaxMergeSegments }
    /\ crossfade_duration \in CrossfadeArguments
    /\ combined_audio = 0
    /\ transition_index = 0
    /\ applied_crossfades = <<>>
    /\ IdleSelection
    /\ IdleOptimizer
    /\ mix_plan = NoPlan
    /\ IdleExtender
    /\ IdleEngineer

\* merge_audio up to the loop: nothing to merge returns None
MergeStart ==
    /\ pc = "load"
    /\ IF Len(audio_files) = 0
       THEN /\ pc' = "returned_none"
            /\ UNCHANGED combined_audio
       ELSE /\ combined_audio' = audio_files[1]
            /\ pc' = "append"
    /\ UNCHANGED <<audio_files, crossfade_duration, transition_index, applied_crossfades>>
    /\ UNCHANGED OtherThanMerge

\* one iteration of the loop over audio_files[1:]
MergeAppend ==
    /\ pc = "append"
    /\ transition_index < Len(audio_files) - 1
    /\ LET audio == audio_files[transition_index + 2]
           requested_crossfade ==
               NormalizedCrossfades(crossfade_duration, Len(audio_files) - 1)[transition_index + 1]
           effective_crossfade == EffectiveCrossfade(requested_crossfade, combined_audio, audio)
       IN  /\ combined_audio' = combined_audio + audio - effective_crossfade
           /\ applied_crossfades' = Append(applied_crossfades, effective_crossfade)
    /\ transition_index' = transition_index + 1
    /\ UNCHANGED <<pc, audio_files, crossfade_duration>>
    /\ UNCHANGED OtherThanMerge

\* export of the combined audio
MergeExport ==
    /\ pc = "append"
    /\ transition_index = Len(audio_files) - 1
    /\ pc' = "exported"
    /\ UNCHANGED mergeVars
    /\ UNCHANGED OtherThanMerge

NextMerge ==
    \/ MergeStart
    \/ MergeAppend
    \/ MergeExport

SpecMerge == InitMerge /\ [][NextMerge]_vars

\* C3: the crossfade applied at the transition between segment i and
\* segment i+1 never exceeds min(duration of segment i, duration of
\* segment i+1) - 1 ms.
C3_CrossfadeWithinAdjacentSegments ==
    \A i \in 1..Len(applied_crossfades) :
        applied_crossfades[i] <= Min(audio_files[i], audio_files[i + 1]) - 1

(***************************************************************************)
(* _generate_ai_intelligent: render and merge, review, one retry with the  *)
(* recovery plan, then return or raise (ai_main.py:3548-3619).  What a     *)
(* render-and-merge run produces is an input of the review.                *)
(***************************************************************************)
\* a track count whose baseline minimum exceeds the cap of 240 s
ManyTracks == 13

\* the number of tracks of a request
EngineerTrackCounts == (1..MaxTracks) \cup {ManyTracks}

InitialPlans ==
    { Plan(30, total, crossfade, transitions) :
        total \in {0, 60, 63, 300}, crossfade \in {-1, 1200}, transitions \in {<<>>, <<2000>>} }

RenderOutputs ==
    { [duration_ms |-> d, loudness_db |-> l, split_count |-> n, file |-> f] :
        d \in {20000, 23950, 250000}, l \in {-40000, -14000}, n \in {1, 2},
        f \in {"ok", "not_found", "unreadable"} }

\* a minimum without the floor of 45 s under a given target
ReviewMinimumWithoutFloor(plan, n) ==
    IF plan.target_total_duration_seconds # 0
    THEN Clamp(plan.target_total_duration_seconds * 720, 0, 3600000)
    ELSE Clamp(IF n <= 1 THEN 24000 ELSE 32000 + ((n - 1) * 18000), 24000, 240000)

\* _review_minimum_duration_seconds, in ms
ReviewMinimumDurationMs(plan, n) ==
    IF plan.target_total_duration_seconds # 0
    THEN Clamp(plan.target_total_duration_seconds * 720, 45000, 3600000)
    ELSE Clamp(IF n <= 1 THEN 24000 ELSE 32000 + ((n - 1) * 18000), 24000, 240000)

ReviewResult(reasons, duration_ms, minimum_required_ms, segment_count) ==
    [approved |-> reasons = <<>>, reasons |-> reasons, duration_ms |-> duration_ms,
     minimum_required_ms |-> minimum_required_ms, segment_count |-> segment_count]

\* a review that does not look at the number of rendered segments
ReviewIgnoringSegments(path, out, plan, n) ==
    LET minimum_required_ms == ReviewMinimumDurationMs(plan, n)
        duration_reason ==
            IF out.duration_ms + 100 < minimum_required_ms THEN <<"duration">> ELSE <<>>
        loudness_reason ==
            IF out.loudness_db < -32000 THEN <<"loudness">> ELSE <<>>
    IN  IF path = 0
        THEN ReviewResult(<<"path_missing">>, 0, minimum_required_ms, out.split_count)
        ELSE IF out.file = "not_found"
        THEN ReviewResult(<<"not_found">>, 0, minimum_required_ms, out.split_count)
        ELSE IF out.file = "unreadable"
        THEN ReviewResult(<<"unreadable">>, 0, minimum_required_ms, out.split_count)
        ELSE ReviewResult(duration_reason \o loudness_reason,
                          out.duration_ms, minimum_required_ms, out.split_count)

\* _review_engineered_mix_output
ReviewEngineeredMixOutput(path, out, plan, n) ==
    LET minimum_required_ms == ReviewMinimumDurationMs(plan, n)
        duration_reason ==
            IF out.duration_ms + 100 < minimum_required_ms THEN <<"duration">> ELSE <<>>
        segment_reason ==
            IF n > 1 /\ out.split_count < 2 THEN <<"segments">> ELSE <<>>
        loudness_reason ==
            IF out.loudness_db < -32000 THEN <<"loudness">> ELSE <<>>
    IN  IF path = 0
        THEN ReviewResult(<<"path_missing">>, 0, minimum_required_ms, out.split_count)
        ELSE IF out.file = "not_found"
        THEN ReviewResult(<<"not_found">>, 0, minimum_required_ms, out.split_count)
        ELSE IF out.file = "unreadable"
        THEN ReviewResult(<<"unreadable">>, 0, minimum_required_ms, out.split_count)
        ELSE ReviewResult(duration_reason \o segment_reason \o loudness_reason,
                          out.duration_ms, minimum_required_ms, out.split_count)

\* a recovery plan that adds 60 s to the minimum whether or not a target exists
RecoveryPlanAddingSixty(plan, review, n) ==
    LET recovery_total_seconds ==
            IF plan.target_total_duration_seconds = 0
            THEN Max(180000, review.minimum_required_ms + 60000) \div 1000
            ELSE Max(plan.target_total_duration_seconds * 1000,
                     review.minimum_required_ms + 60000) \div 1000
        recovery_crossfade ==
            IF plan.global_crossfade_seconds = -1
            THEN (IF n <= 2 THEN 2000 ELSE 2400)
            ELSE plan.global_crossfade_seconds
    IN  Plan(Clamp(Max(plan.target_segment_duration_seconds, 36), 14, 70),
             Clamp(recovery_total_seconds, 60, 3600),
             Clamp(recovery_crossfade, 0, 8000),
             <<>>)

\* _build_audio_engineer_recovery_plan
BuildAudioEngineerRecoveryPlan(plan, review, n) ==
    LET recovery_total_seconds ==
            IF plan.target_total_duration_seconds = 0
            THEN Max(180000, review.minimum_required_ms + 60000) \div 1000
            ELSE Max(plan.target_total_duration_seconds * 1000,
                     review.minimum_required_ms + 30000) \div 1000
        recovery_crossfade ==
            IF plan.global_crossfade_seconds = -1
            THEN (IF n <= 2 THEN 2000 ELSE 2400)
            ELSE plan.global_crossfade_seconds
    IN  Plan(Clamp(Max(plan.target_segment_duration_seconds, 36), 14, 70),
             Clamp(recovery_total_seconds, 60, 3600),
             Clamp(recovery_crossfade, 0, 8000),
             <<>>)

\* the condition of the retry (ai_main.py:3582)
RetryWithoutTrackCount(review, allow, n) == (~review.approved) /\ allow

RetryRequested(review, allow, n) == (~review.approved) /\ allow /\ n > 1

\* review_result at the end of the call: the last review performed
FinalReview(all_reviews) == all_reviews[Len(all_reviews)]

\* the reasons of the first review
ReasonsOfFirstReview(all_reviews) == all_reviews[1].reasons

\* the reasons the RuntimeError carries (ai_main.py:3615-3616)
SurfacedReasons(all_reviews) == FinalReview(all_reviews).reasons

\* an end of the call that hands back the path whatever the review said
OutcomeWithoutFinalCheck(all_reviews, path) == [kind |-> "returned", path |-> path]

\* the end of the call (ai_main.py:3614-3619)
FinalOutcome(all_reviews, path) ==
    IF ~FinalReview(all_reviews).approved
    THEN [kind |-> "raised", error |-> "review", reasons |-> SurfacedReasons(all_reviews)]
    ELSE [kind |-> "returned", path |-> path]

OtherThanEngineer == <<selectionVars, optimizerVars, extenderVars, mergeVars, builderVars,
      scoringVars, rendererVars>>

InitEngineer ==
    /\ IdleScoring
    /\ IdleRenderer
    /\ IdleBuilder
    /\ pc = "render"
    /\ track_count \in EngineerTrackCounts
    /\ mix_plan \in InitialPlans
    /\ allow_auto_retry \in BOOLEAN
    /\ render_plans = <<>>
    /\ merged_file_path = 0
    /\ rendered = NoOutput
    /\ reviews = <<>>
    /\ outcome = [kind |-> "none"]
    /\ IdleSelection
    /\ IdleOptimizer
    /\ IdleExtender
    /\ IdleMerge

\* _audio_engineer_render_and_merge with the current plan: it raises when
\* no segment was rendered or the merge failed, else it hands back the path
\* of a new merged file
RenderAndMerge ==
    /\ pc \in {"render", "retry_render"}
    /\ render_plans' = Append(render_plans, mix_plan)
    /\ \/ /\ outcome' = [kind |-> "raised", error |-> "render"]
          /\ pc' = "ended"
          /\ UNCHANGED <<merged_file_path, rendered>>
       \/ /\ \E out \in RenderOutputs : rendered' = out
          /\ merged_file_path' = Len(render_plans) + 1
          /\ pc' = IF pc = "render" THEN "review" ELSE "retry_review"
          /\ UNCHANGED outcome
    /\ UNCHANGED <<track_count, mix_plan, allow_auto_retry, reviews>>
    /\ UNCHANGED OtherThanEngineer

\* _review_engineered_mix_output on the file just merged
ReviewOutput ==
    /\ pc \in {"review", "retry_review"}
    /\ reviews' = Append(reviews,
                         ReviewEngineeredMixOutput(merged_file_path, rendered, mix_plan, track_count))
    /\ pc' = IF pc = "review" THEN "retry_check" ELSE "final"
    /\ UNCHANGED <<track_count, mix_plan, allow_auto_retry, render_plans, merged_file_path,
                   rendered, outcome>>
    /\ UNCHANGED OtherThanEngineer

\* the retry decision after the first review
RetryCheck ==
    /\ pc = "retry_check"
    /\ IF RetryRequested(reviews[1], allow_auto_retry, track_count)
       THEN /\ mix_plan' = BuildAudioEngineerRecoveryPlan(mix_plan, reviews[1], track_count)
            /\ pc' = "retry_render"
       ELSE /\ pc' = "final"
            /\ UNCHANGED mix_plan
    /\ UNCHANGED <<track_count, engineerVars>>
    /\ UNCHANGED OtherThanEngineer

\* the end of the call: raise on a rejected review, else return the path
Finish ==
    /\ pc = "final"
    /\ outcome' = FinalOutcome(reviews, merged_file_path)
    /\ pc' = "ended"
    /\ UNCHANGED <<track_count, mix_plan, allow_auto_retry, render_plans, merged_file_path,
                   rendered, reviews>>
    /\ UNCHANGED OtherThanEngineer

NextEngineer ==
    \/ RenderAndMerge
    \/ ReviewOutput
    \/ RetryCheck
    \/ Finish

SpecEngineer == InitEngineer /\ [][NextEngineer]_vars

(***************************************************************************)
(* Properties of the review and retry flow.                                *)
(***************************************************************************)
RenderFailed == outcome.kind = "raised" /\ outcome.error = "render"
RejectedByReview == outcome.kind = "raised" /\ outcome.error = "review"

\* C4: render-and-merge runs at most twice; it runs a second time exactly
\* when the first review is rejected, auto-retry is enabled and more than
\* one track participated; the second run uses the recovery plan, every
\* completed run is followed by exactly one review, and there is no third.
C4_AtMostOneRetry ==
    /\ Len(render_plans) <= 2
    /\ Len(reviews) <= Len(render_plans)
    /\ Len(render_plans) = 2 =>
          /\ ~reviews[1].approved
          /\ allow_auto_retry
          /\ track_count > 1
          /\ render_plans[2] =
                BuildAudioEngineerRecoveryPlan(render_plans[1], reviews[1], track_count)
    /\ (pc = "ended" /\ Len(reviews) >= 1
        /\ ~reviews[1].approved /\ allow_auto_retry /\ track_count > 1)
          => Len(render_plans) = 2
    /\ (pc = "ended" /\ ~RenderFailed) => Len(reviews) = Len(render_plans)

\* C4 witness: a call that rendered twice, reviewed twice, was rejected both
\* times and ended.
C4_Witness ==
    /\ pc = "ended"
    /\ Len(render_plans) = 2
    /\ Len(reviews) = 2
    /\ ~reviews[2].approved

\* C5: a path is returned only when the last review performed approved, and
\* it is the path of the last render (the retry's when a retry ran); a call
\* whose last review rejected ends with an error and returns no path.
C5_ReturnsOnlyApprovedOutput ==
    /\ outcome.kind = "returned" =>
          /\ reviews[Len(reviews)].approved
          /\ Len(reviews) = Len(render_plans)
          /\ outcome.path = Len(render_plans)
    /\ (pc = "ended" /\ Len(reviews) >= 1 /\ ~reviews[Len(reviews)].approved)
          => outcome.kind = "raised"

\* C5 witness: a call whose first review rejected and whose retry was
\* approved returns the path of the second render.
C5_Witness ==
    /\ outcome.kind = "returned"
    /\ Len(reviews) = 2
    /\ ~reviews[1].approved
    /\ outcome.path = 2

\* C6 as claimed: after an exhausted retry the error carries the reasons of
\* both reviews.
C6_Original ==
    (RejectedByReview /\ Len(reviews) = 2)
        => \A k \in 1..2 : \A i \in 1..Len(reviews[k].reasons) :
              \E j \in 1..Len(outcome.reasons) : outcome.reasons[j] = reviews[k].reasons[i]

\* C6 amended: after an exhausted retry the error carries exactly the
\* reasons of the review that followed the retry, and at least one.
C6_SurfacesLastReviewReasons ==
    (RejectedByReview /\ Len(reviews) = 2)
        => /\ outcome.reasons = reviews[2].reasons
           /\ outcome.reasons # <<>>

\* C6 witness: an exhausted retry whose two reviews gave different reasons.
C6_Witness ==
    /\ RejectedByReview
    /\ Len(reviews) = 2
    /\ reviews[1].reasons # reviews[2].reasons

(***************************************************************************)
(* Timeline extender: _build_candidate_sequence_for_target_duration        *)
(* (ai_main.py:3209-3294).  A sequence entry names a candidate by its      *)
(* track and its position in that track's list.                            *)
(***************************************************************************)
MaxExtenderTracks == 2

\* a candidate of which the extender reads the window only
Window(s, e) == Cand(s, e, 0, 0, 0, 120000, -1, "unknown", 0, 0, 0)

ExtenderLists ==
    { <<>>,
      <<Window(0, 12000)>>,
      <<Window(10000, 24000)>>,
      <<Window(10000, 24000), Window(0, 12000)>>,
      <<Window(3000, 3500)>> }

ExtenderPlans ==
    { Plan(30, total, crossfade[1], crossfade[2]) :
        total \in {0, 60, 480},
        crossfade \in {<<-1, <<>>>>, <<8000, <<>>>>, <<1200, <<3000, 0>>>>} }

\* _estimated_crossfade_ms_for_plan
EstimatedCrossfadeMsForPlan(plan, transition) ==
    IF transition < 0 THEN 0
    ELSE IF Len(plan.transition_crossfade_seconds) > 0
    THEN LET capped_index == Min(transition, Len(plan.transition_crossfade_seconds) - 1)
         IN  Clamp(plan.transition_crossfade_seconds[capped_index + 1], 0, 8000)
    ELSE IF plan.global_crossfade_seconds # -1
    THEN Clamp(plan.global_crossfade_seconds, 0, 8000)
    ELSE 1800

CandidateAt(entry) == candidates_by_track[entry.track_index][entry.candidate_index]

\* duration_ms of a sequence entry as _effective_sequence_duration_ms counts it
CountedDurationMs(entry) ==
    Max(1000, CandidateAt(entry).end_ms - CandidateAt(entry).start_ms)

\* sum(values[low..high]), by halves
RECURSIVE SumBetween(_, _, _)
SumBetween(values, low, high) ==
    IF low > high THEN 0
    ELSE IF low = high THEN values[low]
    ELSE LET middle == (low + high) \div 2
         IN  SumBetween(values, low, middle) + SumBetween(values, middle + 1, high)

\* an overlap capped at the shorter adjacent duration, without the 200 ms margin
EffectiveDurationWithoutMargin(seq, plan, n) ==
    LET duration_ms(k) == CountedDurationMs(seq[k])
        overlap_ms(k) ==
            IF k = 1 THEN 0
            ELSE Min(EstimatedCrossfadeMsForPlan(plan, k - 2),
                     Max(0, Min(duration_ms(k - 1), duration_ms(k))))
    IN  SumBetween([k \in 1..n |-> duration_ms(k) - overlap_ms(k)], 1, n)

\* _effective_sequence_duration_ms over the first n entries: each entry adds
\* its counted duration and, from the second on, takes off the crossfade of
\* its transition, capped at the shorter of the two durations less 200 ms
EffectiveDurationUpTo(seq, plan, n) ==
    LET duration_ms(k) == CountedDurationMs(seq[k])
        max_safe_crossfade(k) == Max(0, Min(duration_ms(k - 1), duration_ms(k)) - 200)
        overlap_ms(k) ==
            IF k = 1 THEN 0
            ELSE Min(EstimatedCrossfadeMsForPlan(plan, k - 2), max_safe_crossfade(k))
    IN  SumBetween([k \in 1..n |-> duration_ms(k) - overlap_ms(k)], 1, n)

\* _effective_sequence_duration_ms
EffectiveSequenceDurationMs(seq, plan) == EffectiveDurationUpTo(seq, plan, Len(seq))

\* a target taken in seconds where milliseconds are meant
TargetTotalUnscaled(plan) == Clamp(plan.target_total_duration_seconds, 60000, 3600000)

\* target_total_ms
TargetTotalMs(plan) == Clamp(plan.target_total_duration_seconds * 1000, 60000, 3600000)

\* a cap that takes the larger of the two limits
MaxSequenceSegmentsLarger(n) == Max(260, Max(20, n * 60))

\* max_segments
MaxSequenceSegments(n) == Min(260, Max(20, n * 60))

\* selected_candidate_index_by_track[t] (1-based; first candidate when the
\* selection has no entry for the track)
SelectedCandidateIndex(t) ==
    IF selected_candidates[t] = 0 THEN 1 ELSE selected_candidates[t]

\* base_sequence over the tracks 0..t
RECURSIVE BaseSequenceUpTo(_)
BaseSequenceUpTo(t) ==
    IF t < 0 THEN <<>>
    ELSE IF Len(candidates_by_track[t]) = 0 THEN BaseSequenceUpTo(t - 1)
    ELSE Append(BaseSequenceUpTo(t - 1),
                [track_index |-> t, candidate_index |-> SelectedCandidateIndex(t)])

\* a base sequence built from the last track to the first
BaseSequenceReversed ==
    LET base == BaseSequenceUpTo(track_count - 1)
    IN  [i \in 1..Len(base) |-> base[Len(base) + 1 - i]]

BaseSequence == BaseSequenceUpTo(track_count - 1)

\* a variant index that is not wrapped around the list
VariantIndexUnwrapped(t, round) == SelectedCandidateIndex(t) + round

\* the variant index without the offset of the selected candidate
VariantIndexFromFirst(t, round) == (round % Len(candidates_by_track[t])) + 1

\* variant_index (1-based)
VariantIndex(t, round) ==
    (((SelectedCandidateIndex(t) - 1) + round) % Len(candidates_by_track[t])) + 1

\* a track whose only candidate is the half-second one: taken with targets of
\* at most a minute, which it already cannot meet below the cap
HasHalfSecondCandidate == \E t \in Tracks : candidates_by_track[t] = <<Window(3000, 3500)>>

OtherThanExtender == <<optimizerVars, mergeVars, engineerVars, builderVars,
      scoringVars, rendererVars>>

InitExtender ==
    /\ IdleScoring
    /\ IdleRenderer
    /\ IdleBuilder
    /\ pc = "extend"
    /\ track_count \in 0..MaxExtenderTracks
    /\ candidates_by_track \in [Tracks -> ExtenderLists]
    /\ selected_candidates \in [Tracks -> 1..2]
    /\ \A t \in Tracks : selected_candidates[t] <= Max(1, Len(candidates_by_track[t]))
    /\ mix_plan \in ExtenderPlans
    /\ HasHalfSecondCandidate => mix_plan.target_total_duration_seconds <= 60
    /\ track_index = 0
    /\ sequence = <<>>
    /\ round_index = 0
    /\ IdleOptimizer
    /\ IdleMerge
    /\ IdleEngineer

\* the function up to its loop: the base sequence and the early returns
ExtendStart ==
    /\ pc = "extend"
    /\ IF track_count = 0 \/ BaseSequence = <<>>
       THEN /\ sequence' = <<>>
            /\ pc' = "done"
            /\ UNCHANGED round_index
       ELSE IF mix_plan.target_total_duration_seconds = 0
       THEN /\ sequence' = BaseSequence
            /\ pc' = "done"
            /\ UNCHANGED round_index
       ELSE /\ sequence' = BaseSequence
            /\ round_index' = 1
            /\ pc' = "while"
    /\ UNCHANGED <<track_count, candidates_by_track, selected_candidates, track_index, mix_plan>>
    /\ UNCHANGED OtherThanExtender

\* the test of the while loop
ExtendWhile ==
    /\ pc = "while"
    /\ IF /\ Len(sequence) < MaxSequenceSegments(track_count)
          /\ EffectiveSequenceDurationMs(sequence, mix_plan) < TargetTotalMs(mix_plan)
       THEN /\ track_index' = 0
            /\ pc' = "for"
       ELSE /\ pc' = "done"
            /\ UNCHANGED track_index
    /\ UNCHANGED <<track_count, candidates_by_track, selected_candidates, mix_plan, extenderVars>>
    /\ UNCHANGED OtherThanExtender

\* a for loop that goes on to the next track without testing target and cap
ExtendForWithoutBreak ==
    /\ pc = "for"
    /\ track_index < track_count
    /\ IF Len(candidates_by_track[track_index]) = 0
       THEN UNCHANGED sequence
       ELSE sequence' = Append(sequence, [track_index |-> track_index,
                            candidate_index |-> VariantIndex(track_index, round_index)])
    /\ track_index' = track_index + 1
    /\ UNCHANGED <<pc, round_index>>
    /\ UNCHANGED <<track_count, candidates_by_track, selected_candidates, mix_plan>>
    /\ UNCHANGED OtherThanExtender

\* one iteration of the for loop over the tracks
ExtendFor ==
    /\ pc = "for"
    /\ track_index < track_count
    /\ IF Len(candidates_by_track[track_index]) = 0
       THEN /\ track_index' = track_index + 1
            /\ UNCHANGED <<pc, sequence, round_index>>
       ELSE LET variant_index == VariantIndex(track_index, round_index)
                extended == Append(sequence, [track_index |-> track_index,
                                              candidate_index |-> variant_index])
            IN  IF variant_index \notin 1..Len(candidates_by_track[track_index])
                THEN /\ pc' = "raised"
                     /\ UNCHANGED <<track_index, sequence, round_index>>
                ELSE /\ sequence' = extended
                     /\ IF \/ EffectiveSequenceDurationMs(extended, mix_plan) >= TargetTotalMs(mix_plan)
                           \/ Len(extended) >= MaxSequenceSegments(track_count)
                        THEN /\ round_index' = round_index + 1
                             /\ pc' = "while"
                             /\ UNCHANGED track_index
                        ELSE /\ track_index' = track_index + 1
                             /\ UNCHANGED <<pc, round_index>>
    /\ UNCHANGED <<track_count, candidates_by_track, selected_candidates, mix_plan>>
    /\ UNCHANGED OtherThanExtender

\* the for loop ran over every track: next round
ExtendRoundEnd ==
    /\ pc = "for"
    /\ track_index = track_count
    /\ round_index' = round_index + 1
    /\ pc' = "while"
    /\ UNCHANGED <<track_count, selectionVars, mix_plan, sequence>>
    /\ UNCHANGED OtherThanExtender

NextExtender ==
    \/ ExtendStart
    \/ ExtendWhile
    \/ ExtendFor
    \/ ExtendRoundEnd

SpecExtender == InitExtender /\ [][NextExtender]_vars

\* inputs of the termination check: up to two tracks, the 480 s target with
\* one track only, the half-second candidate with no target only
InitExtenderFair ==
    /\ InitExtender
    /\ track_count <= 2
    /\ track_count = 2 => mix_plan.target_total_duration_seconds <= 60
    /\ HasHalfSecondCandidate => mix_plan.target_total_duration_seconds = 0

\* the loop is a sequential program: a step that can be taken is taken
SpecExtenderFair == InitExtenderFair /\ [][NextExtender]_vars /\ WF_vars(NextExtender)

\* inputs of the checks that walk the whole sequence in every state: up to
\* two tracks and a target of at most a minute, every candidate list and
\* every crossfade
InitExtenderShortTarget ==
    /\ InitExtender
    /\ track_count <= 2
    /\ mix_plan.target_total_duration_seconds <= 60

SpecExtenderShortTarget == InitExtenderShortTarget /\ [][NextExtender]_vars

ExtenderReturned == pc = "done"

ExtenderHasCandidates == \E t \in Tracks : Len(candidates_by_track[t]) > 0

\* C7: with a target total duration and at least one track that has
\* candidates, the returned sequence has an effective duration of at least
\* the target (in ms, clamped to [60000, 3600000]) or has reached the cap
\* min(260, max(20, 60 * track_count)).
C7_TargetMetOrCapReached ==
    ( /\ ExtenderReturned
      /\ mix_plan.target_total_duration_seconds # 0
      /\ ExtenderHasCandidates )
    => \/ EffectiveSequenceDurationMs(sequence, mix_plan)
            >= Clamp(mix_plan.target_total_duration_seconds * 1000, 60000, 3600000)
       \/ Len(sequence) >= Min(260, Max(20, 60 * track_count))

\* the extender appended segments and stopped below the cap on a met target
C7_Witness ==
    /\ ExtenderReturned
    /\ mix_plan.target_total_duration_seconds = 480
    /\ Len(sequence) > Len(BaseSequence)
    /\ Len(sequence) < Min(260, Max(20, 60 * track_count))
    /\ EffectiveSequenceDurationMs(sequence, mix_plan) >= 480000

C9_ExtenderTerminates == <>ExtenderReturned

\* the extender went round a track's candidate list more than once and
\* returned a sequence that misses the target
C9_Witness ==
    /\ ExtenderReturned
    /\ track_count = 1
    /\ Len(candidates_by_track[0]) = 2
    /\ round_index > 2
    /\ mix_plan.target_total_duration_seconds = 480
    /\ EffectiveSequenceDurationMs(sequence, mix_plan) < 480000

(***************************************************************************)
(* Candidate generator: _build_track_segment_candidates                    *)
(* (ai_main.py:2226-2230, 2270-2476).  The samples of the track are not    *)
(* modelled: a track is its length and a loudness shape, from which the    *)
(* loudness of a window and the energy start points follow.                *)
(***************************************************************************)
MaxSectionBoundaries == 1

AudioDurations == {0, 6000, 10000, 10100, 11000, 16000, 60000}

AudioShapes == {"flat", "front", "back"}

BeatIntervals == {260, 500, 760}

TargetDurations == {14000, 30000}

\* forced_start_ms, forced_end_ms of the plan (-1: None)
ForcedWindows == {<<-1, -1>>, <<5000, 20000>>, <<9000, 9500>>, <<70000, 80000>>, <<8000, 3000>>}

\* anchor_ratio (thousandths, -1: None), suggested_start (seconds) of the plan
StartHints == {<<-1, 0>>, <<-1, 9>>, <<500, 0>>}

BoundaryPoints == {7000, 14000}

\* section_boundaries_ms of a track of the given length: 0, interior
\* boundaries in increasing order, the track length (0 alone for an empty
\* track)
SectionBoundaryLists(duration_ms) ==
    LET interior == { b \in UNION { [1..n -> BoundaryPoints] : n \in 0..MaxSectionBoundaries } :
                        /\ \A i \in 1..Len(b) : b[i] < duration_ms
                        /\ \A i \in 1..(Len(b) - 1) : b[i] < b[i + 1] }
    IN  IF duration_ms <= 0 THEN {<<0>>}
        ELSE { <<0>> \o b \o <<duration_ms>> : b \in interior }

\* round(n / d) of Python for n >= 0, d > 0: halves go to the even neighbour
RoundHalfEven(n, d) ==
    LET q == n \div d
        r == n % d
    IN  IF 2 * r < d THEN q
        ELSE IF 2 * r > d THEN q + 1
        ELSE IF q % 2 = 0 THEN q ELSE q + 1

\* a snap to the 16-beat phrase grid in place of the beat grid
AlignToPhraseGrid(value_ms, beat_interval_ms, max_value_ms) ==
    IF beat_interval_ms <= 0
    THEN Clamp(value_ms, 0, max_value_ms)
    ELSE Clamp(RoundHalfEven(value_ms, beat_interval_ms * 16) * (beat_interval_ms * 16),
               0, max_value_ms)

\* _align_to_beat_grid
AlignToBeatGrid(value_ms, beat_interval_ms, max_value_ms) ==
    IF beat_interval_ms <= 0
    THEN Clamp(value_ms, 0, max_value_ms)
    ELSE Clamp(RoundHalfEven(value_ms, beat_interval_ms) * beat_interval_ms, 0, max_value_ms)

\* _top_energy_start_points on the energy frames of the track
TopEnergyStartPoints(track) ==
    IF track.shape = "front" THEN <<0, 2500>>
    ELSE IF track.shape = "back" THEN <<((track.duration_ms \div 250) - 1) * 250>>
    ELSE <<0>>

\* _top_drop_start_points on the energy frames of the track
TopDropStartPoints(track) ==
    IF track.shape = "back" THEN <<((track.duration_ms \div 500)) * 250>> ELSE <<>>

\* avg_db * 1.1 + mid_db * 0.8 - boundary_gap * 0.5 of a window of the track
WindowLoudnessScore(track, start_ms, end_ms) ==
    IF track.shape = "front" THEN -20000 - (start_ms \div 20)
    ELSE IF track.shape = "back" THEN -26000 + (start_ms \div 20)
    ELSE -22800

\* _transition_aware_score with previous_tail_dbfs = None
TransitionAwareScore(track, start_ms, end_ms) ==
    WindowLoudnessScore(track, start_ms, end_ms)
    - (IF start_ms < 4000 THEN 1500 ELSE 0)
    - (IF track.duration_ms - end_ms < 4000 THEN 1500 ELSE 0)

\* min over the boundaries of abs(start_ms - boundary)
RECURSIVE ClosestGap(_, _, _)
ClosestGap(start_ms, boundaries_ms, n) ==
    IF n = 1 THEN Abs(start_ms - boundaries_ms[1])
    ELSE Min(ClosestGap(start_ms, boundaries_ms, n - 1), Abs(start_ms - boundaries_ms[n]))

\* _boundary_alignment_score
BoundaryAlignmentScore(start_ms, boundaries_ms, beat_interval_ms) ==
    IF Len(boundaries_ms) = 0 THEN 0
    ELSE LET closest_gap == ClosestGap(start_ms, boundaries_ms, Len(boundaries_ms))
             tolerance == Max((beat_interval_ms * 3) \div 2, 600)
         IN  1000 - Clamp((closest_gap * 1000) \div tolerance, 0, 1000)

\* a returned candidate: the _SegmentCandidate with the track_index argument
\* and its candidate_id, the rank r standing for "t<track_index>c<r>"
WithCandidateId(c, rank) ==
    [f \in (DOMAIN c) \cup {"candidate_id", "track_index"} |->
        IF f = "candidate_id" THEN rank
        ELSE IF f = "track_index" THEN track_index
        ELSE c[f]]

ProfileBpm(profile) == 60000000 \div Max(profile.beat_interval_ms, 1)

\* a _SegmentCandidate of the track: beat interval and bpm of its profile (the
\* key of the track is not modelled: unknown)
ProfileCand(profile, s, e, en, dr, tq, sa, wd) ==
    [Cand(s, e, en, dr, tq, ProfileBpm(profile), -1, "unknown", 0, sa, wd)
        EXCEPT !.beat_interval_ms = profile.beat_interval_ms]

\* the window test of a search that drops empty windows only
KeepsNonEmptyWindow(start_ms, end_ms) == end_ms > start_ms

\* the window test of the search loop (2403-2406)
KeepsWindow(start_ms, end_ms) ==
    /\ end_ms > start_ms
    /\ end_ms - start_ms >= 10000

\* the candidate of the forced-window path (2302-2346)
ForcedCandidate(source, track, profile, target_ms) ==
    LET audio_duration_ms == track.duration_ms
        beat_interval_ms == profile.beat_interval_ms
        max_start_ms == Max(0, audio_duration_ms - 1200)
        start_1 == Clamp(source.forced_start_ms, 0, max_start_ms)
        end_1 == Clamp(source.forced_end_ms, 0, audio_duration_ms)
        end_2 == IF end_1 <= start_1
                 THEN Min(audio_duration_ms, start_1 + Max(10000, target_ms))
                 ELSE end_1
        end_3 == IF end_2 - start_1 < 7000
                 THEN Min(audio_duration_ms, start_1 + 10000)
                 ELSE end_2
        start_4 == AlignToBeatGrid(start_1, beat_interval_ms, audio_duration_ms)
        end_4 == AlignToBeatGrid(end_3, beat_interval_ms, audio_duration_ms)
        end_5 == IF end_4 <= start_4
                 THEN Min(audio_duration_ms, start_4 + Max(beat_interval_ms * 16, 8000))
                 ELSE end_4
        start_ms == IF end_5 <= start_4 THEN 0 ELSE start_4
        end_ms == IF end_5 <= start_4
                  THEN Min(audio_duration_ms, Max(10000, target_ms))
                  ELSE end_5
        section_alignment ==
            BoundaryAlignmentScore(start_ms, profile.section_boundaries_ms, beat_interval_ms)
        transition_quality ==
            TransitionAwareScore(track, start_ms, end_ms) + Scale(section_alignment, 550)
    IN  WithCandidateId(
            ProfileCand(profile, start_ms, end_ms, -12000, 0, transition_quality,
                        section_alignment, 3000), 0)

\* the candidate of a track of at most 10 s (2348-2367)
ShortTrackCandidate(track, profile) ==
    WithCandidateId(
        ProfileCand(profile, 0, track.duration_ms, -12000, 0, 0, 1000, 3000), 0)

\* the candidate returned when the search found none (2450-2469)
FallbackCandidate(track, profile, target_ms) ==
    WithCandidateId(
        ProfileCand(profile, 0, Min(track.duration_ms, Max(12000, target_ms)), -12000, 0, 0,
                    600, 3000), 0)

\* suggestion_ms (2369-2372)
SuggestionMs(source, track) ==
    IF source.anchor_ratio # -1
    THEN Scale(Clamp(source.anchor_ratio, 0, 1000), track.duration_ms)
    ELSE Max(0, source.suggested_start * 1000)

\* seed_starts (2374-2388)
SeedStarts(source, track, profile) ==
    LET suggestion_ms == SuggestionMs(source, track)
        beat_interval_ms == profile.beat_interval_ms
        section_boundaries == profile.section_boundaries_ms
    IN  <<0, suggestion_ms>>
        \o SubSeq(section_boundaries, 1, Min(Len(section_boundaries), 18))
        \o << Max(0, suggestion_ms - (beat_interval_ms * 8)),
              Max(0, suggestion_ms - (beat_interval_ms * 4)),
              suggestion_ms + (beat_interval_ms * 4),
              suggestion_ms + (beat_interval_ms * 8) >>
        \o TopEnergyStartPoints(track)
        \o TopDropStartPoints(track)
        \o << (track.duration_ms * 15) \div 100, (track.duration_ms * 35) \div 100,
              (track.duration_ms * 55) \div 100, (track.duration_ms * 75) \div 100 >>

\* duration_variants (2390-2395)
DurationVariants(target_ms, audio_duration_ms) ==
    << Clamp((target_ms * 88) \div 100, 12000, audio_duration_ms),
       Clamp(target_ms, 12000, audio_duration_ms),
       Clamp((target_ms * 112) \div 100, 12000, audio_duration_ms) >>

\* the candidate the search builds for a window (2411-2448); candidate_id ""
SearchCandidate(track, profile, start_ms, end_ms) ==
    LET section_alignment ==
            BoundaryAlignmentScore(start_ms, profile.section_boundaries_ms,
                                   profile.beat_interval_ms)
        waveform_dynamics == 3000
        transition_quality ==
            TransitionAwareScore(track, start_ms, end_ms)
            + Scale(section_alignment, 650)
            + Scale(Min((waveform_dynamics * 1000) \div 6500, 1000), 450)
    IN  WithCandidateId(
            ProfileCand(profile, start_ms, end_ms, -12000, Clamp(0, -6000, 6000),
                        transition_quality, section_alignment, waveform_dynamics), -1)

\* one pass of the inner loop: the window of a seed and a duration variant
AddWindow(found, track, profile, seed_start, duration_ms) ==
    LET start_ms == AlignToBeatGrid(seed_start, profile.beat_interval_ms, track.duration_ms)
        end_ms == AlignToBeatGrid(start_ms + duration_ms, profile.beat_interval_ms,
                                  track.duration_ms)
    IN  IF ~KeepsWindow(start_ms, end_ms) THEN found
        ELSE IF \E i \in 1..Len(found) :
                    found[i].start_ms = start_ms /\ found[i].end_ms = end_ms
        THEN found
        ELSE Append(found, SearchCandidate(track, profile, start_ms, end_ms))

\* the candidates in the order the search found them
FoundOrder(found, n) == SubSeq(found, 1, n)

\* sorted(candidates, key=_candidate_priority, reverse=True): a stable sort,
\* equal priorities keep their order
RankedByPriority(found, n) ==
    LET ahead(i) == Cardinality({ j \in 1..n :
                        \/ CandidatePriority(found[j]) > CandidatePriority(found[i])
                        \/ /\ CandidatePriority(found[j]) = CandidatePriority(found[i])
                           /\ j < i })
    IN  [p \in 1..n |-> found[CHOOSE i \in 1..n : ahead(i) = p - 1]]

\* ranked[:max_candidates] with the ids assigned (2471-2476)
Trimmed(found, limit) ==
    LET ranked == RankedByPriority(found, Len(found))
    IN  [i \in 1..Min(limit, Len(ranked)) |-> [ranked[i] EXCEPT !.candidate_id = i - 1]]

\* values of AI_LLM_CANDIDATES_PER_TRACK in the environment: unset, or an
\* integer
CandidatePoolSettings ==
    {[set |-> FALSE, value |-> 0]} \cup { [set |-> TRUE, value |-> v] : v \in {2, 4, 20} }

\* _resolve_int_env for a value that is unset or parses as an integer
ResolveIntEnv(raw_value, default, minimum, maximum) ==
    IF ~raw_value.set THEN default ELSE Clamp(raw_value.value, minimum, maximum)

HasForcedWindow(source) == source.forced_start_ms # -1 /\ source.forced_end_ms # -1

OtherThanBuilder ==
    <<track_count, selectionVars, optimizerVars, mix_plan, extenderVars, mergeVars,
      engineerVars,
      scoringVars, rendererVars>>

InitBuilder ==
    /\ IdleScoring
    /\ IdleRenderer
    /\ pc = "build"
    /\ track_count = 2
    /\ track_index \in 0..(track_count - 1)
    /\ candidates_by_track = <<>>
    /\ selected_candidates = <<>>
    /\ track_audio \in [duration_ms : AudioDurations, shape : AudioShapes]
    /\ dsp_profile \in [beat_interval_ms : BeatIntervals,
                        section_boundaries_ms : SectionBoundaryLists(track_audio.duration_ms)]
    /\ \E forced \in ForcedWindows, hint \in StartHints :
          track_source = [forced_start_ms |-> forced[1], forced_end_ms |-> forced[2],
                          anchor_ratio |-> hint[1], suggested_start |-> hint[2]]
    /\ target_duration_ms \in TargetDurations
    /\ max_candidates \in { ResolveIntEnv(raw_value, 8, 4, 14) : raw_value \in CandidatePoolSettings }
    /\ seed_starts = <<>>
    /\ seed_index = 0
    /\ candidates = <<>>
    /\ built_candidates = <<>>
    /\ IdleOptimizer
    /\ mix_plan = NoPlan
    /\ IdleExtender
    /\ IdleMerge
    /\ IdleEngineer

\* the function up to the search loop: the forced window and the short track
\* return at once
BuildStart ==
    /\ pc = "build"
    /\ IF HasForcedWindow(track_source)
       THEN /\ built_candidates' =
                   <<ForcedCandidate(track_source, track_audio, dsp_profile, target_duration_ms)>>
            /\ pc' = "built"
            /\ UNCHANGED seed_starts
       ELSE IF track_audio.duration_ms <= 10000
       THEN /\ built_candidates' = <<ShortTrackCandidate(track_audio, dsp_profile)>>
            /\ pc' = "built"
            /\ UNCHANGED seed_starts
       ELSE /\ seed_starts' = SeedStarts(track_source, track_audio, dsp_profile)
            /\ pc' = "seed"
            /\ UNCHANGED built_candidates
    /\ UNCHANGED <<track_source, track_audio, dsp_profile, target_duration_ms, max_candidates,
                   seed_index, candidates>>
    /\ UNCHANGED OtherThanBuilder

\* one iteration of the loop over seed_starts: the three duration variants
BuildSeed ==
    /\ pc = "seed"
    /\ seed_index < Len(seed_starts)
    /\ LET seed_start == seed_starts[seed_index + 1]
           variants == DurationVariants(target_duration_ms, track_audio.duration_ms)
           after_1 == AddWindow(candidates, track_audio, dsp_profile, seed_start, variants[1])
           after_2 == AddWindow(after_1, track_audio, dsp_profile, seed_start, variants[2])
       IN  candidates' = AddWindow(after_2, track_audio, dsp_profile, seed_start, variants[3])
    /\ seed_index' = seed_index + 1
    /\ UNCHANGED <<pc, track_source, track_audio, dsp_profile, target_duration_ms,
                   max_candidates, seed_starts, built_candidates>>
    /\ UNCHANGED OtherThanBuilder

\* after the loop: the fallback candidate, or the ranked and trimmed list
BuildRank ==
    /\ pc = "seed"
    /\ seed_index = Len(seed_starts)
    /\ built_candidates' =
          IF Len(candidates) = 0
          THEN <<FallbackCandidate(track_audio, dsp_profile, target_duration_ms)>>
          ELSE Trimmed(candidates, max_candidates)
    /\ pc' = "built"
    /\ UNCHANGED <<track_source, track_audio, dsp_profile, target_duration_ms, max_candidates,
                   seed_starts, seed_index, candidates>>
    /\ UNCHANGED OtherThanBuilder

NextBuilder ==
    \/ BuildStart
    \/ BuildSeed
    \/ BuildRank

SpecBuilder == InitBuilder /\ [][NextBuilder]_vars

BuilderReturned == pc = "built"

\* the statement of C10 as written: every candidate returned for a track
\* without a forced window spans at least 10000 ms, whatever the track length
C10_Original ==
    (BuilderReturned /\ ~HasForcedWindow(track_source))
    => \A i \in 1..Len(built_candidates) :
          built_candidates[i].end_ms - built_candidates[i].start_ms >= 10000

\* C10: every candidate returned for a track without a forced window that
\* is longer than 10 s spans at least 10000 ms, for every target duration
\* (a track of at most 10 s gets one candidate spanning the whole track).
C10_LongTrackCandidatesSpanTenSeconds ==
    (BuilderReturned /\ ~HasForcedWindow(track_source) /\ track_audio.duration_ms > 10000)
    => \A i \in 1..Len(built_candidates) :
          built_candidates[i].end_ms - built_candidates[i].start_ms >= 10000

\* the search returned several candidates after it had dropped the window of
\* a seed that lies less than 10 s before the end of the track
C10_Witness ==
    /\ BuilderReturned
    /\ ~HasForcedWindow(track_source)
    /\ track_audio.duration_ms > 10000
    /\ Len(built_candidates) > 1
    /\ \E k \in 1..Len(seed_starts) :
          LET start_ms == AlignToBeatGrid(seed_starts[k], dsp_profile.beat_interval_ms,
                                          track_audio.duration_ms)
          IN  /\ start_ms < track_audio.duration_ms
              /\ track_audio.duration_ms - start_ms < 10000

(***************************************************************************)
(* Properties of the forced-window path.                                   *)
(***************************************************************************)
\* the forced window lies inside the track
ForcedWindowInsideTrack ==
    /\ HasForcedWindow(track_source)
    /\ 0 <= track_source.forced_start_ms
    /\ track_source.forced_start_ms < track_source.forced_end_ms
    /\ track_source.forced_end_ms <= track_audio.duration_ms

\* one candidate, each end within one beat interval of the forced window
ForcedWindowReproduced ==
    /\ Len(built_candidates) = 1
    /\ Abs(built_candidates[1].start_ms - track_source.forced_start_ms)
         <= dsp_profile.beat_interval_ms
    /\ Abs(built_candidates[1].end_ms - track_source.forced_end_ms)
         <= dsp_profile.beat_interval_ms

\* the statement of C11 as written: every forced window inside the track is
\* reproduced within one beat interval
C11_Original ==
    (BuilderReturned /\ ForcedWindowInsideTrack) => ForcedWindowReproduced

\* C11: a forced window that lies inside the track and is at least 7000 ms
\* long gives exactly one candidate whose start_ms and end_ms each differ
\* from the forced start and end by at most one beat_interval_ms (a shorter
\* forced window has its end moved to start + 10000 first).
C11_LongForcedWindowReproduced ==
    ( /\ BuilderReturned
      /\ ForcedWindowInsideTrack
      /\ track_source.forced_end_ms - track_source.forced_start_ms >= 7000 )
    => ForcedWindowReproduced

\* a forced window of 15 s inside the track came back moved by the snap
C11_Witness ==
    /\ BuilderReturned
    /\ ForcedWindowInsideTrack
    /\ track_source.forced_end_ms - track_source.forced_start_ms >= 7000
    /\ Len(built_candidates) = 1
    /\ built_candidates[1].start_ms # track_source.forced_start_ms
    /\ built_candidates[1].end_ms # track_source.forced_end_ms

(***************************************************************************)
(* Properties of every path of the candidate generator.                    *)
(***************************************************************************)
\* C12: every returned candidate, on every path and for every track length,
\* satisfies 0 <= start_ms < end_ms <= track length and carries the
\* track_index the call was made for.
C12_CandidatesWithinTrack ==
    BuilderReturned =>
        \A i \in 1..Len(built_candidates) :
            /\ 0 <= built_candidates[i].start_ms
            /\ built_candidates[i].start_ms < built_candidates[i].end_ms
            /\ built_candidates[i].end_ms <= track_audio.duration_ms
            /\ built_candidates[i].track_index = track_index

(***************************************************************************)
(* DSP analysis of a track: _analyze_track_dsp and                         *)
(* _fallback_track_dsp_profile (ai_main.py:2040-2222).  Loudness values    *)
(* of this part are whole dB.  The track is its length and a loudness      *)
(* shape; _safe_dbfs of a chunk follows from the shape.                    *)
(***************************************************************************)
MaxDspSeconds == 20

DspDurations == {0, 1000, 3000, 9000} \cup {MaxDspSeconds * 1000}

DspShapes == {"silent", "steady", "click500", "click750", "click1000", "click1500", "saw", "burst"}

ClickPeriod(shape) ==
    IF shape = "click500" THEN 500
    ELSE IF shape = "click750" THEN 750
    ELSE IF shape = "click1000" THEN 1000
    ELSE IF shape = "click1500" THEN 1500
    ELSE 0

\* _safe_dbfs(audio[start_ms : start_ms + frame_ms]): a click track is loud
\* in the chunks that hold a click, a saw track rises by 10 dB over three
\* quarter seconds and falls back, a burst track is loud in its second second
SafeDbfs(track, start_ms, frame_ms) ==
    LET end_ms == Min(start_ms + frame_ms, track.duration_ms)
        period == ClickPeriod(track.shape)
    IN  IF track.shape = "silent" THEN -80
        ELSE IF track.shape = "steady" THEN -12
        ELSE IF track.shape = "saw" THEN -40 + 10 * ((start_ms \div 250) % 3)
        ELSE IF track.shape = "burst"
        THEN (IF start_ms < 2000 /\ end_ms > 1000 THEN -20 ELSE -40)
        ELSE IF \E k \in 0..(track.duration_ms \div period) :
                    start_ms <= k * period /\ k * period < end_ms
        THEN -20
        ELSE -40

\* _energy_frames: one value per frame_ms of audio, the last frame partial
EnergyFrames(track, frame_ms) ==
    [i \in 1..((track.duration_ms + frame_ms - 1) \div frame_ms) |->
        SafeDbfs(track, (i - 1) * frame_ms, frame_ms)]

\* _estimate_waveform_flux
EstimateWaveformFlux(energies) ==
    IF Len(energies) < 2 THEN <<>>
    ELSE [i \in 1..Len(energies) |->
            IF i = 1 THEN 0 ELSE Max(0, energies[i] - energies[i - 1])]

SumUpTo(values, n) == SumBetween(values, 1, n)

SumSquaresUpTo(values, n) == SumBetween([i \in 1..n |-> values[i] * values[i]], 1, n)

\* value < _mean(values) + _stddev(values) * factor, factor = num / 20,
\* decided on integers: with d = n * value - sum and D = n * sumsq - sum^2
\* the test is d < (num / 20) * sqrt(D)
BelowThreshold(value, values, num) ==
    LET n == Len(values)
        d == n * value - SumUpTo(values, n)
        spread == n * SumSquaresUpTo(values, n) - SumUpTo(values, n) * SumUpTo(values, n)
    IN  d < 0 \/ 400 * d * d < num * num * spread

\* value <= _mean(values) + _stddev(values) * factor, factor = num / 20
AtMostThreshold(value, values, num) ==
    LET n == Len(values)
        d == n * value - SumUpTo(values, n)
        spread == n * SumSquaresUpTo(values, n) - SumUpTo(values, n) * SumUpTo(values, n)
    IN  d <= 0 \/ 400 * d * d <= num * num * spread

\* the frame indexes (0-based) a peak search keeps, in increasing order
IndexesInOrder(indexes, upto) ==
    [p \in 1..Cardinality(indexes) |->
        CHOOSE v \in indexes : Cardinality({ w \in indexes : w < v }) = p - 1]

\* the gaps between neighbouring peaks, in ms, that lie in [low, high]
GapsInRange(peaks, frame_ms, low, high) ==
    LET kept == { i \in 1..(Len(peaks) - 1) :
                    /\ (peaks[i + 1] - peaks[i]) * frame_ms >= low
                    /\ (peaks[i + 1] - peaks[i]) * frame_ms <= high }
        order == IndexesInOrder(kept, Len(peaks))
    IN  [i \in 1..Len(order) |-> (peaks[order[i] + 1] - peaks[order[i]]) * frame_ms]

\* statistics.median of a non-empty list, truncated to an integer: the k-th
\* smallest value is the one with fewer than k values below it and at least
\* k values not above it
KthSmallest(values, k) ==
    CHOOSE v \in { values[i] : i \in 1..Len(values) } :
        /\ Cardinality({ i \in 1..Len(values) : values[i] < v }) < k
        /\ Cardinality({ i \in 1..Len(values) : values[i] <= v }) >= k

Median(values) ==
    LET n == Len(values)
    IN  IF n % 2 = 1 THEN KthSmallest(values, (n + 1) \div 2)
        ELSE (KthSmallest(values, n \div 2) + KthSmallest(values, (n \div 2) + 1)) \div 2

\* peak_indexes of _estimate_tempo_from_flux (0-based frame indexes)
FluxPeakIndexes(flux) ==
    IndexesInOrder(
        { index \in 1..(Len(flux) - 2) :
            /\ ~BelowThreshold(flux[index + 1], flux, 11)
            /\ flux[index + 1] >= flux[index]
            /\ flux[index + 1] >= flux[index + 2] },
        Len(flux))

\* _estimate_tempo_from_flux
EstimateTempoFromFlux(flux, frame_ms) ==
    IF Len(flux) < 8 \/ frame_ms <= 0 THEN 500
    ELSE LET intervals_ms == GapsInRange(FluxPeakIndexes(flux), frame_ms, 250, 1000)
         IN  IF Len(intervals_ms) = 0 THEN 500
             ELSE Clamp(Median(intervals_ms), 260, 760)

\* peak_indexes of _estimate_beat_interval_ms (0-based frame indexes)
EnergyPeakIndexes(energies) ==
    IndexesInOrder(
        { index \in 1..(Len(energies) - 2) :
            /\ ~AtMostThreshold(energies[index + 1], energies, 7)
            /\ energies[index + 1] >= energies[index]
            /\ energies[index + 1] >= energies[index + 2] },
        Len(energies))

\* _estimate_beat_interval_ms
EstimateBeatIntervalMs(track) ==
    LET energies == EnergyFrames(track, 250)
    IN  IF Len(energies) < 6 THEN 500
        ELSE LET intervals_ms == GapsInRange(EnergyPeakIndexes(energies), 250, 240, 850)
             IN  IF Len(intervals_ms) = 0 THEN 500
                 ELSE Clamp(Median(intervals_ms), 260, 760)

\* bpm = 60_000 / max(beat_interval_ms, 1), in thousandths
BeatsPerMinute(beat_interval_ms) == 60000000 \div Max(beat_interval_ms, 1)

\* the elements of a set of integers in increasing order
SortedSeq(values) ==
    [p \in 1..Cardinality(values) |->
        CHOOSE v \in values : Cardinality({ w \in values : w < v }) = p - 1]

\* deltas of _estimate_section_boundaries_ms: the change of energy at frame
\* index (0-based, from 1 on)
EnergyDelta(energies, index) == Abs(energies[index + 1] - energies[index])

\* the frame indexes in the order deltas.sort(reverse=True) leaves them in:
\* larger change first, equal changes in index order
DeltaOrder(energies) ==
    LET indexes == 1..(Len(energies) - 1)
        place(i) == Cardinality({ j \in indexes :
                        \/ EnergyDelta(energies, j) > EnergyDelta(energies, i)
                        \/ EnergyDelta(energies, j) = EnergyDelta(energies, i) /\ j < i }) + 1
    IN  [p \in 1..(Len(energies) - 1) |-> CHOOSE i \in indexes : place(i) = p]

\* chosen_frames of _estimate_section_boundaries_ms: the loop over the sorted
\* deltas from position "from" on, with the frames chosen so far
RECURSIVE ChosenFrames(_, _, _, _, _, _)
ChosenFrames(energies, order, chosen, from, min_gap_frames, max_boundaries) ==
    LET taken == { p \in from..Len(order) :
                     /\ EnergyDelta(energies, order[p]) >= 1
                     /\ \A c \in 1..Len(chosen) :
                           Abs(order[p] - chosen[c]) >= min_gap_frames }
    IN  IF taken = {} \/ Len(chosen) >= max_boundaries THEN chosen
        ELSE LET first == CHOOSE p \in taken : \A q \in taken : p <= q
             IN  ChosenFrames(energies, order, Append(chosen, order[first]), first + 1,
                              min_gap_frames, max_boundaries)

\* section boundaries without the final boundaries.add(audio_duration_ms)
BoundariesWithoutEnd(energies, frame_ms, beat_interval_ms, audio_duration_ms) ==
    IF audio_duration_ms <= 0 THEN <<0>>
    ELSE IF Len(energies) = 0 \/ frame_ms <= 0 THEN <<0, audio_duration_ms>>
    ELSE LET phrase_ms == Max(beat_interval_ms * 16, 7000)
             markers == { k * phrase_ms : k \in 1..(audio_duration_ms \div phrase_ms) }
                        \cap 0..(audio_duration_ms - 1)
             min_gap_frames == Max(2, (phrase_ms * 13) \div (Max(frame_ms, 1) * 20))
             max_boundaries == Min(18, Max(4, audio_duration_ms \div Max(phrase_ms, 1)))
             order == DeltaOrder(energies)
             chosen_frames ==
                 ChosenFrames(energies, order, <<>>, 1, min_gap_frames, max_boundaries)
             boundaries ==
                 {0}
                 \cup { Clamp(marker, 0, audio_duration_ms) : marker \in markers }
                 \cup { chosen_frames[c] * frame_ms : c \in 1..Len(chosen_frames) }
             ordered == SortedSeq(boundaries)
         IN  [i \in 1..Len(ordered) |-> Clamp(ordered[i], 0, audio_duration_ms)]

\* _estimate_section_boundaries_ms
EstimateSectionBoundariesMs(energies, frame_ms, beat_interval_ms, audio_duration_ms) ==
    IF audio_duration_ms <= 0 THEN <<0>>
    ELSE IF Len(energies) = 0 \/ frame_ms <= 0 THEN <<0, audio_duration_ms>>
    ELSE LET phrase_ms == Max(beat_interval_ms * 16, 7000)
             markers == { k * phrase_ms : k \in 1..(audio_duration_ms \div phrase_ms) }
                        \cap 0..(audio_duration_ms - 1)
             min_gap_frames == Max(2, (phrase_ms * 13) \div (Max(frame_ms, 1) * 20))
             max_boundaries == Min(18, Max(4, audio_duration_ms \div Max(phrase_ms, 1)))
             order == DeltaOrder(energies)
             chosen_frames ==
                 ChosenFrames(energies, order, <<>>, 1, min_gap_frames, max_boundaries)
             boundaries ==
                 {0}
                 \cup { Clamp(marker, 0, audio_duration_ms) : marker \in markers }
                 \cup { chosen_frames[c] * frame_ms : c \in 1..Len(chosen_frames) }
                 \cup {audio_duration_ms}
             ordered == SortedSeq(boundaries)
         IN  [i \in 1..Len(ordered) |-> Clamp(ordered[i], 0, audio_duration_ms)]

OtherThanDsp ==
    <<track_count, selectionVars, optimizerVars, mix_plan, extenderVars, mergeVars,
      engineerVars, track_source, target_duration_ms, max_candidates, seed_starts,
      seed_index, candidates, built_candidates,
      scoringVars, rendererVars>>

InitDsp ==
    /\ IdleScoring
    /\ IdleRenderer
    /\ pc = "analyze"
    /\ track_count = 1
    /\ track_audio \in [duration_ms : DspDurations, shape : DspShapes]
    /\ dsp_profile = NoProfile
    /\ track_source = NoTrackSource
    /\ target_duration_ms = 0
    /\ max_candidates = 0
    /\ seed_starts = <<>>
    /\ seed_index = 0
    /\ candidates = <<>>
    /\ built_candidates = <<>>
    /\ IdleSelection
    /\ IdleOptimizer
    /\ mix_plan = NoPlan
    /\ IdleExtender
    /\ IdleMerge
    /\ IdleEngineer

\* the profile before its section boundaries are estimated
ProfileOf(frame_ms, energies, beat_interval_ms, bpm) ==
    [frame_ms |-> frame_ms, energy_frames |-> energies,
     beat_interval_ms |-> beat_interval_ms, bpm |-> bpm,
     key_index |-> -1, key_scale |-> "unknown", key_confidence |-> 0,
     section_boundaries_ms |-> <<>>]

\* _analyze_track_dsp (AI_ENABLE_DSP_ANALYSIS on) up to the section boundaries
AnalyzeTrackDsp ==
    /\ pc = "analyze"
    /\ LET frame_ms == 250
           energies == EnergyFrames(track_audio, frame_ms)
           flux == EstimateWaveformFlux(energies)
           estimated == EstimateTempoFromFlux(flux, frame_ms)
           beat_interval_ms ==
               Clamp(IF estimated <= 0 THEN EstimateBeatIntervalMs(track_audio) ELSE estimated,
                     260, 760)
       IN  dsp_profile' =
               ProfileOf(frame_ms, energies, beat_interval_ms, BeatsPerMinute(beat_interval_ms))
    /\ pc' = "sections"
    /\ UNCHANGED track_audio
    /\ UNCHANGED OtherThanDsp

\* _fallback_track_dsp_profile (AI_ENABLE_DSP_ANALYSIS off) up to the section
\* boundaries
FallbackTrackDspProfile ==
    /\ pc = "analyze"
    /\ LET frame_ms == 400
           energies == EnergyFrames(track_audio, frame_ms)
           beat_interval_ms == Clamp(EstimateBeatIntervalMs(track_audio), 260, 760)
       IN  dsp_profile' =
               ProfileOf(frame_ms, energies, beat_interval_ms, BeatsPerMinute(beat_interval_ms))
    /\ pc' = "sections"
    /\ UNCHANGED track_audio
    /\ UNCHANGED OtherThanDsp

\* the call of _estimate_section_boundaries_ms and the return of the profile
EstimateSections ==
    /\ pc = "sections"
    /\ dsp_profile' =
          [dsp_profile EXCEPT !.section_boundaries_ms =
              EstimateSectionBoundariesMs(dsp_profile.energy_frames, dsp_profile.frame_ms,
                                          dsp_profile.beat_interval_ms,
                                          track_audio.duration_ms)]
    /\ pc' = "analyzed"
    /\ UNCHANGED track_audio
    /\ UNCHANGED OtherThanDsp

NextDsp ==
    \/ AnalyzeTrackDsp
    \/ FallbackTrackDspProfile
    \/ EstimateSections

SpecDsp == InitDsp /\ [][NextDsp]_vars

ProfileProduced == pc = "analyzed"

\* ---------------------------------------------------------------------------
\* C13
\* ---------------------------------------------------------------------------

\* C13: every profile produced by _analyze_track_dsp or
\* _fallback_track_dsp_profile has a beat interval in [260, 760] and a bpm of
\* 60000 / beat_interval_ms (in thousandths), and a track whose energy never
\* changes, which has no peak, gets the default beat interval of 500 ms.
C13_BeatIntervalAndBpm ==
    ProfileProduced =>
        /\ dsp_profile.beat_interval_ms >= 260
        /\ dsp_profile.beat_interval_ms <= 760
        /\ dsp_profile.bpm = 60000000 \div dsp_profile.beat_interval_ms
        /\ ((\A i, j \in DOMAIN dsp_profile.energy_frames :
                 dsp_profile.energy_frames[i] = dsp_profile.energy_frames[j])
               => dsp_profile.beat_interval_ms = 500)

\* ---------------------------------------------------------------------------
\* C14
\* ---------------------------------------------------------------------------

\* the last review is the review of the output in `rendered`, made with the
\* plan of the last render, and the merged file could be opened
LastReviewOfOpenedFile ==
    /\ Len(reviews) >= 1
    /\ Len(reviews) = Len(render_plans)
    /\ rendered.file = "ok"

LastReview == reviews[Len(reviews)]

LastMinimumMs == ReviewMinimumDurationMs(render_plans[Len(reviews)], track_count)

SegmentCheckPasses == track_count > 1 => rendered.split_count >= 2

LoudnessCheckPasses == rendered.loudness_db >= -32000

FailingChecks(duration_passes) ==
    (IF duration_passes THEN 0 ELSE 1) + (IF SegmentCheckPasses THEN 0 ELSE 1)
        + (IF LoudnessCheckPasses THEN 0 ELSE 1)

\* C14 as claimed: the review of an opened file approves exactly when the
\* duration is at least the minimum, there are two segments or more whenever
\* more than one track was selected, and the loudness is at least -32 dBFS;
\* each failing check adds one reason.
C14_Original ==
    LastReviewOfOpenedFile =>
        /\ LastReview.approved <=>
              (rendered.duration_ms >= LastMinimumMs /\ SegmentCheckPasses /\ LoudnessCheckPasses)
        /\ Len(LastReview.reasons) = FailingChecks(rendered.duration_ms >= LastMinimumMs)

\* C14 amended: the review of an opened file approves exactly when the
\* duration plus 0.1 s is at least the minimum, there are two segments or
\* more whenever more than one track was selected, and the loudness is at
\* least -32 dBFS; each failing check adds one reason, and an output below
\* -32 dBFS whose duration passes is rejected with a loudness reason.
C14_ApprovedIffAllChecksPass ==
    LastReviewOfOpenedFile =>
        /\ LastReview.approved <=>
              (rendered.duration_ms + 100 >= LastMinimumMs /\ SegmentCheckPasses
               /\ LoudnessCheckPasses)
        /\ Len(LastReview.reasons) = FailingChecks(rendered.duration_ms + 100 >= LastMinimumMs)
        /\ (~LoudnessCheckPasses) =>
              /\ ~LastReview.approved
              /\ \E i \in 1..Len(LastReview.reasons) : LastReview.reasons[i] = "loudness"
        /\ (~SegmentCheckPasses) =>
              \E i \in 1..Len(LastReview.reasons) : LastReview.reasons[i] = "segments"

\* C14 witness: an opened output at -40 dBFS whose duration meets the minimum
\* and that has two segments of two tracks is rejected with the loudness
\* reason alone.
C14_Witness ==
    /\ LastReviewOfOpenedFile
    /\ track_count = 2
    /\ rendered.split_count = 2
    /\ rendered.loudness_db = -40000
    /\ rendered.duration_ms >= LastMinimumMs
    /\ ~LastReview.approved
    /\ LastReview.reasons = <<"loudness">>

\* ---------------------------------------------------------------------------
\* C15
\* ---------------------------------------------------------------------------

\* the minimum without a target: 24 s for one track, 32 + 18 (n - 1) s for
\* more, at most 240 s
BaselineMinimumMs(n) == IF n <= 1 THEN 24000 ELSE Min(240000, 32000 + (18000 * (n - 1)))

\* C15 as claimed: the minimum a review requires is 0.72 times the target of
\* the reviewed plan when it has one, and the baseline of the track count
\* otherwise.
C15_Original ==
    \A k \in 1..Len(reviews) :
        LET plan == render_plans[k]
        IN  reviews[k].minimum_required_ms =
                IF plan.target_total_duration_seconds # 0
                THEN plan.target_total_duration_seconds * 720
                ELSE BaselineMinimumMs(track_count)

\* C15 amended: the minimum a review requires is 0.72 times the target of
\* the reviewed plan but at least 45 s when the plan has a target, and
\* otherwise 24 s for one track and 32 + 18 (n - 1) s for n > 1 tracks,
\* at most 240 s.
C15_MinimumDuration ==
    \A k \in 1..Len(reviews) :
        LET plan == render_plans[k]
        IN  reviews[k].minimum_required_ms =
                IF plan.target_total_duration_seconds # 0
                THEN Max(45000, plan.target_total_duration_seconds * 720)
                ELSE BaselineMinimumMs(track_count)

\* C15 witness: a review of a plan with a target of 60 s requires 45 s, not
\* the 43.2 s that 0.72 times the target gives.
C15_Witness ==
    \E k \in 1..Len(reviews) :
        /\ render_plans[k].target_total_duration_seconds = 60
        /\ reviews[k].minimum_required_ms = 45000

\* ---------------------------------------------------------------------------
\* C16
\* ---------------------------------------------------------------------------

\* a recovery plan was built: the second render used it
RecoveryPlanBuilt == Len(render_plans) = 2

\* the target of the rejected plan, 0 when it had none
RejectedTarget == render_plans[1].target_total_duration_seconds

\* the target of the recovery plan
RecoveryTarget == render_plans[2].target_total_duration_seconds

\* C16 as claimed: the recovery plan's target is
\* max(current target, minimum required + 60) when the rejected plan had a
\* target and max(180, minimum required + 60) when it had none, clamped to
\* [60, 3600].
C16_Original ==
    RecoveryPlanBuilt =>
        RecoveryTarget =
            Clamp(IF RejectedTarget # 0
                  THEN Max(RejectedTarget * 1000, reviews[1].minimum_required_ms + 60000) \div 1000
                  ELSE Max(180000, reviews[1].minimum_required_ms + 60000) \div 1000,
                  60, 3600)

\* C16 amended: the recovery plan's target is
\* max(current target, minimum required + 30) when the rejected plan had a
\* target and max(180, minimum required + 60) when it had none, cut to whole
\* seconds and clamped to [60, 3600].
C16_RecoveryTarget ==
    RecoveryPlanBuilt =>
        RecoveryTarget =
            Clamp(IF RejectedTarget # 0
                  THEN Max(RejectedTarget * 1000, reviews[1].minimum_required_ms + 30000) \div 1000
                  ELSE Max(180000, reviews[1].minimum_required_ms + 60000) \div 1000,
                  60, 3600)

\* C16 witness: a rejected plan with a target of 60 s, reviewed against
\* 45 s, is followed by a recovery plan with a target of 75 s.
C16_Witness ==
    /\ RecoveryPlanBuilt
    /\ RejectedTarget = 60
    /\ reviews[1].minimum_required_ms = 45000
    /\ RecoveryTarget = 75

\* ---------------------------------------------------------------------------
\* C17
\* ---------------------------------------------------------------------------

C19_SectionBoundariesOrdered ==
    (ProfileProduced /\ track_audio.duration_ms > 0) =>
        LET boundaries == dsp_profile.section_boundaries_ms
        IN  /\ Len(boundaries) >= 2
            /\ \A i \in 1..(Len(boundaries) - 1) : boundaries[i] < boundaries[i + 1]
            /\ \A i \in 1..Len(boundaries) :
                  boundaries[i] >= 0 /\ boundaries[i] <= track_audio.duration_ms
            /\ \E i \in 1..Len(boundaries) : boundaries[i] = 0
            /\ \E i \in 1..Len(boundaries) : boundaries[i] = track_audio.duration_ms

\* C19 witness: a produced profile of a track of more than one phrase whose
\* boundaries hold a phrase marker and a boundary taken from an energy jump
\* that is no multiple of the phrase length.
C19_Witness ==
    /\ ProfileProduced
    /\ track_audio.duration_ms > 9000
    /\ LET boundaries == dsp_profile.section_boundaries_ms
           phrase_ms == Max(dsp_profile.beat_interval_ms * 16, 7000)
       IN  /\ \E i \in 1..Len(boundaries) : boundaries[i] = phrase_ms
           /\ \E i \in 1..Len(boundaries) :
                 /\ boundaries[i] > 0
                 /\ boundaries[i] < track_audio.duration_ms
                 /\ boundaries[i] % phrase_ms # 0

(***************************************************************************)
(* _audio_engineer_render_and_merge from the rendered segments on: the     *)
(* crossfade of the plan is resolved and handed to merge_audio             *)
(* (ai_main.py:3537-3542).  Seconds of the plan are held in thousandths.   *)
(***************************************************************************)
RenderedSegmentLengths == {1000, 10000, 30000}

\* split_files: at least one rendered segment (ai_main.py:3534)
RenderedSegmentLists ==
    UNION { [1..n -> RenderedSegmentLengths] : n \in 1..MaxMergeSegments }

PlanCrossfadeSeconds == {0, 2500, 8000}

\* plans with or without a global crossfade and a per-transition list
CrossfadePlans ==
    { Plan(30, 0, global, transitions) :
        global \in {-1, 0, 2000, 8000},
        transitions \in UNION { [1..n -> PlanCrossfadeSeconds] : n \in 0..(MaxMergeSegments - 1) } }

\* the shortest of the segments, from the start value of 1 000 000 ms
RECURSIVE ShortestMs(_, _)
ShortestMs(segment_files, i) ==
    IF i > Len(segment_files) THEN 1000000
    ELSE Min(segment_files[i], ShortestMs(segment_files, i + 1))

\* _crossfade_for_segments
CrossfadeForSegments(segment_files) ==
    IF Len(segment_files) <= 1 THEN 0
    ELSE Clamp((ShortestMs(segment_files, 1) * 18) \div 100, 1200, 4500)

\* a resolution that looks at the global value before the list
ResolveGlobalFirst(plan, segment_files) ==
    IF plan.global_crossfade_seconds # -1
    THEN [kind |-> "single", value |-> Clamp(plan.global_crossfade_seconds, 0, 8000)]
    ELSE IF Len(plan.transition_crossfade_seconds) > 0
    THEN [kind |-> "list",
          values |-> [i \in 1..Len(plan.transition_crossfade_seconds) |->
                         Clamp(plan.transition_crossfade_seconds[i], 0, 8000)]]
    ELSE [kind |-> "single", value |-> CrossfadeForSegments(segment_files)]

\* _resolve_mix_crossfade_duration
ResolveMixCrossfadeDuration(plan, segment_files) ==
    IF Len(plan.transition_crossfade_seconds) > 0
    THEN [kind |-> "list",
          values |-> [i \in 1..Len(plan.transition_crossfade_seconds) |->
                         Clamp(plan.transition_crossfade_seconds[i], 0, 8000)]]
    ELSE IF plan.global_crossfade_seconds # -1
    THEN [kind |-> "single", value |-> Clamp(plan.global_crossfade_seconds, 0, 8000)]
    ELSE [kind |-> "single", value |-> CrossfadeForSegments(segment_files)]

InitRenderMerge ==
    /\ IdleScoring
    /\ IdleRenderer
    /\ IdleBuilder
    /\ pc = "resolve"
    /\ track_count = 0
    /\ audio_files \in RenderedSegmentLists
    /\ mix_plan \in CrossfadePlans
    /\ crossfade_duration = [kind |-> "single", value |-> 0]
    /\ combined_audio = 0
    /\ transition_index = 0
    /\ applied_crossfades = <<>>
    /\ IdleSelection
    /\ IdleOptimizer
    /\ IdleExtender
    /\ IdleEngineer

\* crossfade_config = _resolve_mix_crossfade_duration(mix_plan, split_files)
ResolveCrossfade ==
    /\ pc = "resolve"
    /\ crossfade_duration' = ResolveMixCrossfadeDuration(mix_plan, audio_files)
    /\ pc' = "load"
    /\ UNCHANGED <<audio_files, combined_audio, transition_index, applied_crossfades>>
    /\ UNCHANGED OtherThanMerge

NextRenderMerge ==
    \/ ResolveCrossfade
    \/ MergeStart
    \/ MergeAppend
    \/ MergeExport

SpecRenderMerge == InitRenderMerge /\ [][NextRenderMerge]_vars

CrossfadeResolved == pc # "resolve"

HasTransitionList == Len(mix_plan.transition_crossfade_seconds) > 0

HasGlobalCrossfade == mix_plan.global_crossfade_seconds # -1

\* the per-transition list of the plan, each value clamped to [0, 8] s, in ms
ClampedTransitionList ==
    [i \in 1..Len(mix_plan.transition_crossfade_seconds) |->
        Max(0, Min(8000, mix_plan.transition_crossfade_seconds[i]))]

\* clamp(0.18 * shortest clip length, 1200, 4500) ms
HeuristicCrossfadeMs ==
    LET shortest == CHOOSE x \in { audio_files[i] : i \in 1..Len(audio_files) } :
                        \A i \in 1..Len(audio_files) : x <= audio_files[i]
    IN  Max(1200, Min(4500, (shortest * 18) \div 100))

\* C20 as claimed: the resolved crossfade is the clamped per-transition list
\* when the plan has one, else the plan's global value, else
\* clamp(0.18 * shortest clip length, 1200, 4500) ms.
C20_Original ==
    CrossfadeResolved =>
        IF HasTransitionList
        THEN crossfade_duration = [kind |-> "list", values |-> ClampedTransitionList]
        ELSE IF HasGlobalCrossfade
        THEN crossfade_duration = [kind |-> "single", value |-> mix_plan.global_crossfade_seconds]
        ELSE crossfade_duration = [kind |-> "single", value |-> HeuristicCrossfadeMs]

\* C20 amended: the resolved crossfade is the clamped per-transition list
\* when the plan has one, else the plan's global value, else the heuristic:
\* clamp(0.18 * shortest clip length, 1200, 4500) ms for two segments or
\* more and 0 for a single segment.
C20_CrossfadePriority ==
    CrossfadeResolved =>
        IF HasTransitionList
        THEN crossfade_duration = [kind |-> "list", values |-> ClampedTransitionList]
        ELSE IF HasGlobalCrossfade
        THEN crossfade_duration = [kind |-> "single", value |-> mix_plan.global_crossfade_seconds]
        ELSE crossfade_duration =
                [kind |-> "single",
                 value |-> IF Len(audio_files) >= 2 THEN HeuristicCrossfadeMs ELSE 0]

\* C20 witness: a plan that has both a per-transition list and a global
\* value is resolved to the list, and the merge of three segments ran with it.
C20_Witness ==
    /\ pc = "exported"
    /\ Len(audio_files) = 3
    /\ HasTransitionList
    /\ HasGlobalCrossfade
    /\ crossfade_duration.kind = "list"
    /\ crossfade_duration.values = mix_plan.transition_crossfade_seconds

\* ---------------------------------------------------------------------------
\* C21
\* ---------------------------------------------------------------------------

\* C21: when the forced window of a track starts at or beyond the end of the
\* track, the generator returns a single candidate that spans the full
\* track, from 0 to the track length.
C21_ForcedOutsideGivesFullTrack ==
    (BuilderReturned /\ HasForcedWindow(track_source)
     /\ track_source.forced_start_ms >= track_audio.duration_ms)
        => /\ Len(built_candidates) = 1
           /\ built_candidates[1].start_ms = 0
           /\ built_candidates[1].end_ms = track_audio.duration_ms

\* ---------------------------------------------------------------------------
\* C23
\* ---------------------------------------------------------------------------

\* C23: the single candidate of the forced-window path spans at least
\* 7000 ms, for every forced window and every track length.
C23_ForcedCandidateSpansSevenSeconds ==
    (BuilderReturned /\ HasForcedWindow(track_source))
        => /\ Len(built_candidates) = 1
           /\ built_candidates[1].end_ms - built_candidates[1].start_ms >= 7000

\* ---------------------------------------------------------------------------
\* C22
\* ---------------------------------------------------------------------------

\* C22: the list returned by the search path has at most pool-size entries,
\* the pool size being within [4, 14]; it is ordered by non-increasing
\* priority; the candidate at position r (from 0) has the id of rank r and
\* the track_index of the call; and no window the search found and dropped
\* has a higher priority than a kept one.
C22_RankedCappedList ==
    (BuilderReturned /\ Len(candidates) > 0) =>
        /\ max_candidates >= 4 /\ max_candidates <= 14
        /\ Len(built_candidates) = Min(max_candidates, Len(candidates))
        /\ \A i, j \in 1..Len(built_candidates) :
              i < j => CandidatePriority(built_candidates[i]) >= CandidatePriority(built_candidates[j])
        /\ \A r \in 1..Len(built_candidates) :
              /\ built_candidates[r].candidate_id = r - 1
              /\ built_candidates[r].track_index = track_index
              /\ \E k \in 1..Len(candidates) :
                    /\ candidates[k].start_ms = built_candidates[r].start_ms
                    /\ candidates[k].end_ms = built_candidates[r].end_ms
        /\ \A k \in 1..Len(candidates) :
              (\A r \in 1..Len(built_candidates) :
                   <<candidates[k].start_ms, candidates[k].end_ms>>
                       # <<built_candidates[r].start_ms, built_candidates[r].end_ms>>)
                  => \A r \in 1..Len(built_candidates) :
                         CandidatePriority(candidates[k]) <= CandidatePriority(built_candidates[r])

\* C22 witness: a search that found more windows than the pool holds, in an
\* order other than by priority, returned a full pool.
C22_Witness ==
    /\ BuilderReturned
    /\ Len(candidates) > max_candidates
    /\ Len(built_candidates) = max_candidates
    /\ \E k \in 1..(Len(candidates) - 1) :
          CandidatePriority(candidates[k]) < CandidatePriority(candidates[k + 1])
    /\ CandidatePriority(built_candidates[1]) > CandidatePriority(built_candidates[max_candidates])

(***************************************************************************)
(* _harmonic_transition_compatibility on a pair of candidates              *)
(* (ai_main.py:2857-2876), as _pair_transition_score calls it.  Only the   *)
(* key of a candidate matters to it.                                       *)
(***************************************************************************)
KeyScales == {"major", "minor"}

\* the key of a candidate: unknown, or a pitch class and a scale
CandidateKeys ==
    {NoKey} \cup { [key_index |-> k, key_scale |-> s] : k \in 0..11, s \in KeyScales }

InitHarmonic ==
    /\ pc = "score"
    /\ track_count = 2
    /\ harmonic_pair \in { <<l, r>> : l \in CandidateKeys, r \in CandidateKeys }
    /\ harmonic_result = -1
    /\ IdleRenderer
    /\ IdleBuilder
    /\ IdleSelection
    /\ IdleOptimizer
    /\ mix_plan = NoPlan
    /\ IdleExtender
    /\ IdleMerge
    /\ IdleEngineer

\* harmonic_score = _harmonic_transition_compatibility(left, right)
ScoreHarmonicTransition ==
    /\ pc = "score"
    /\ harmonic_result' = HarmonicTransitionCompatibility(harmonic_pair[1], harmonic_pair[2])
    /\ pc' = "scored"
    /\ UNCHANGED <<track_count, harmonic_pair>>
    /\ UNCHANGED <<selectionVars, optimizerVars, mix_plan, extenderVars, mergeVars,
                   engineerVars, builderVars, rendererVars>>

NextHarmonic ==
    \/ ScoreHarmonicTransition

SpecHarmonic == InitHarmonic /\ [][NextHarmonic]_vars

\* semitones between the two keys, the shorter way round the circle
KeyDistance ==
    LET up == (harmonic_pair[2].key_index - harmonic_pair[1].key_index + 12) % 12
    IN  IF up <= 6 THEN up ELSE 12 - up

SameScale == harmonic_pair[1].key_scale = harmonic_pair[2].key_scale

EitherKeyUnknown == harmonic_pair[1].key_index < 0 \/ harmonic_pair[2].key_index < 0

\* C24: the compatibility of two keys is 0.62 when either is unknown, 1.0
\* for a unison in the same scale, 0.84 for a unison in different scales,
\* 0.9 for a perfect fourth or fifth in the same scale, within [0.63, 0.72]
\* for a step of one or two semitones and within [0.5, 0.66] for a third or
\* a tritone; a fifth in the same scale therefore scores above a semitone in
\* different scales.
C24_HarmonicCompatibilityTable ==
    pc # "score" =>
        /\ EitherKeyUnknown => harmonic_result = 620
        /\ (~EitherKeyUnknown /\ KeyDistance = 0 /\ SameScale) => harmonic_result = 1000
        /\ (~EitherKeyUnknown /\ KeyDistance = 0 /\ ~SameScale) => harmonic_result = 840
        /\ (~EitherKeyUnknown /\ KeyDistance = 5 /\ SameScale) => harmonic_result = 900
        /\ (~EitherKeyUnknown /\ KeyDistance \in {1, 2})
              => (harmonic_result >= 630 /\ harmonic_result <= 720)
        /\ (~EitherKeyUnknown /\ KeyDistance \in {3, 4, 6})
              => (harmonic_result >= 500 /\ harmonic_result <= 660)
        /\ (~EitherKeyUnknown /\ KeyDistance = 5 /\ SameScale)
              => harmonic_result > 660

\* C24 witness: C major to G major, a perfect fifth in the same scale, was
\* scored 0.9.
C24_Witness ==
    /\ pc = "scored"
    /\ harmonic_pair = <<[key_index |-> 0, key_scale |-> "major"],
                         [key_index |-> 7, key_scale |-> "major"]>>
    /\ harmonic_result = 900

\* ---------------------------------------------------------------------
\* The segments the extender appends
\* ---------------------------------------------------------------------

\* the tracks that have candidates, in track order
TracksWithCandidates == SelectSeq([i \in 1..track_count |-> i - 1], LAMBDA t : Len(candidates_by_track[t]) > 0)

\* the entries after the base sequence
AppendedPositions == (Len(TracksWithCandidates) + 1)..Len(sequence)

\* the round and the track of the append that filled position k
AppendRound(k) == ((k - Len(TracksWithCandidates) - 1) \div Len(TracksWithCandidates)) + 1

AppendTrack(k) == TracksWithCandidates[((k - Len(TracksWithCandidates) - 1) % Len(TracksWithCandidates)) + 1]

AlreadyUsed(k) == \E j \in 1..(k - 1) : sequence[j] = sequence[k]

\* C25 as stated: every appended segment is a candidate that is not already
\* in the sequence.
C25_AppendedCandidateUnused == \A k \in AppendedPositions : ~AlreadyUsed(k)

\* C25: the appended segments go round-robin over the tracks that have
\* candidates, in track order, and the segment appended for a track in round
\* r is its candidate at the cyclic index (selected index + r) mod candidate
\* count, which comes back to candidates that are already in the sequence.
C25_AppendedRoundRobin ==
    \A k \in AppendedPositions :
        LET t == AppendTrack(k)
            n == Len(candidates_by_track[t])
        IN  /\ sequence[k].track_index = t
            /\ sequence[k].candidate_index
                 = (((selected_candidates[t] - 1) + AppendRound(k)) % n) + 1

C25_Witness ==
    /\ ExtenderReturned
    /\ track_count = 2
    /\ selected_candidates[0] = 2
    /\ Len(candidates_by_track[0]) = 2
    /\ Len(candidates_by_track[1]) = 1
    /\ Len(sequence) >= 6
    /\ \E k \in AppendedPositions : AlreadyUsed(k)

\* C26: the extender only appends.  The returned sequence begins with the
\* selected candidate of each track that has candidates, in track order, so
\* it is at least as long as the number of such tracks; with no target total
\* duration in the plan it is exactly that base sequence.
C26_ExtenderOnlyAppends ==
    ExtenderReturned =>
        /\ Len(sequence) >= Len(TracksWithCandidates)
        /\ \A i \in 1..Len(TracksWithCandidates) :
              /\ sequence[i].track_index = TracksWithCandidates[i]
              /\ sequence[i].candidate_index = selected_candidates[TracksWithCandidates[i]]
        /\ mix_plan.target_total_duration_seconds = 0
              => Len(sequence) = Len(TracksWithCandidates)

C26_Witness ==
    /\ ExtenderReturned
    /\ Len(TracksWithCandidates) = 2
    /\ selected_candidates[0] = 2
    /\ mix_plan.target_total_duration_seconds # 0
    /\ Len(sequence) > 2

\* the effective duration of the first n entries of the sequence
EffectiveAt(n) == EffectiveDurationUpTo(sequence, mix_plan, n)

\* C27: no segment is appended after the target or the cap has been reached:
\* whenever the last entry of the sequence is an appended one, in the
\* returned sequence and after every append before it, the sequence without
\* that entry had an effective duration below the target and a length below
\* the cap.
C27_NoAppendAfterTargetOrCap ==
    Len(sequence) \in AppendedPositions =>
        /\ EffectiveAt(Len(sequence) - 1) < TargetTotalMs(mix_plan)
        /\ Len(sequence) - 1 < MaxSequenceSegments(track_count)

C27_Witness ==
    /\ ExtenderReturned
    /\ Len(TracksWithCandidates) = 2
    /\ Len(sequence) % 2 = 1
    /\ Len(sequence) < MaxSequenceSegments(track_count)
    /\ EffectiveAt(Len(sequence)) >= TargetTotalMs(mix_plan)

\* every candidate that could be appended
AppendableEntries ==
    { [track_index |-> t, candidate_index |-> i] :
        t \in Tracks, i \in 1..2 }

\* C29: appending any candidate to a non-empty sequence increases the
\* effective duration by at least 200 ms: each segment counts for at least
\* 1000 ms and the overlap of a transition is at most the shorter of the two
\* adjacent durations less 200 ms.  Stated for the entry last appended to
\* the sequence and for every candidate that could be appended next.
C29_AppendAddsAtLeast200 ==
    LET n == Len(sequence)
        effective == EffectiveSequenceDurationMs(sequence, mix_plan)
        before == EffectiveAt(n - 1)
    IN  /\ n >= 1 => CountedDurationMs(sequence[n]) >= 1000
        /\ n >= 2 =>
              /\ CountedDurationMs(sequence[n]) - (effective - before)
                   <= Min(CountedDurationMs(sequence[n - 1]),
                          CountedDurationMs(sequence[n])) - 200
              /\ effective >= before + 200
        /\ n >= 1 =>
              \A entry \in AppendableEntries :
                  entry.candidate_index <= Len(candidates_by_track[entry.track_index])
                  => EffectiveSequenceDurationMs(Append(sequence, entry), mix_plan)
                       >= effective + 200

C29_Witness ==
    /\ Len(sequence) >= 3
    /\ CandidateAt(sequence[Len(sequence)]).end_ms - CandidateAt(sequence[Len(sequence)]).start_ms < 1000
    /\ CountedDurationMs(sequence[Len(sequence) - 1]) > 1000
    /\ EffectiveAt(Len(sequence)) = EffectiveAt(Len(sequence) - 1) + 200

\* ---------------------------------------------------------------------
\* The two tempo strategies of _analyze_track_dsp
\* ---------------------------------------------------------------------

\* the spectral-flux strategy has too few frames, no peaks or no gap between
\* peaks in range
FluxFindsNoInterval(track) ==
    LET flux == EstimateWaveformFlux(EnergyFrames(track, 250))
    IN  \/ Len(flux) < 8
        \/ Len(GapsInRange(FluxPeakIndexes(flux), 250, 250, 1000)) = 0

\* the profile is the one _analyze_track_dsp built
AnalyzedProfile == pc # "analyze" /\ dsp_profile.frame_ms = 250

\* C30: whenever the spectral-flux strategy finds no peaks or no gap between
\* peaks in range, the beat interval of the profile is the one of the raw
\* energy-peak strategy (_estimate_beat_interval_ms).
C30_FallbackTakesEnergyPeakInterval ==
    (AnalyzedProfile /\ FluxFindsNoInterval(track_audio))
    => dsp_profile.beat_interval_ms = Clamp(EstimateBeatIntervalMs(track_audio), 260, 760)

(***************************************************************************)
(* _render_candidate_sequence_segments (ai_main.py:3297-3334): the single  *)
(* pass over the candidate sequence.  A clip is the slice of its track     *)
(* after the fades: its loudness and the loudness of its last two seconds. *)
(* Loudness and gain of this part are in millionths of a dB, so that the   *)
(* factor 0.15 stays exact over the clips of a sequence.                   *)
(***************************************************************************)
MaxRenderSegments == 3

\* whole dB in millionths
Db(whole) == whole * 1000000

\* _safe_dbfs of a clip and of its tail: silence reads -80, the tail of a
\* clip that is not silent is as loud as the clip or 6 dB below it
ClipLoudness ==
    {[current |-> Db(-80), tail |-> Db(-80)]}
      \cup { [current |-> Db(c), tail |-> Db(c - below)] : c \in {-30, -14, -3}, below \in {0, 6} }

\* the candidates of a sequence: a valid track and the loudness of the clip
RenderClips == { [track_index |-> t, loudness |-> l] : t \in 0..1, l \in ClipLoudness }

RECURSIVE RenderSequences(_)
RenderSequences(n) ==
    IF n = 0 THEN {<<>>}
    ELSE RenderSequences(n - 1)
           \cup { Append(s, c) : s \in { q \in RenderSequences(n - 1) : Len(q) = n - 1 },
                                 c \in RenderClips }

\* gain_db = _clamp(target_loudness - current_loudness, -8.0, 8.0)
NormalizeGainDb(current_loudness) == Clamp(Db(-14) - current_loudness, Db(-8), Db(8))

\* a continuity adjustment that is not clamped again
ContinuityGainUnclamped(gain_db, current_loudness, previous_tail) ==
    IF previous_tail.known
    THEN gain_db - ((current_loudness - previous_tail.dbfs) \div 20) * 3
    ELSE gain_db

\* the continuity adjustment: 0.15 = 3 / 20 of the step from the previous
\* tail, clamped again
ContinuityGainDb(gain_db, current_loudness, previous_tail) ==
    IF previous_tail.known
    THEN Clamp(gain_db - ((current_loudness - previous_tail.dbfs) \div 20) * 3, Db(-8), Db(8))
    ELSE gain_db

\* _safe_dbfs of the last two seconds after apply_gain: silence stays silence
TailAfterGain(loudness, gain_db) ==
    IF loudness.tail = Db(-80) THEN Db(-80) ELSE loudness.tail + gain_db

InitRenderer ==
    /\ pc = "render"
    /\ track_count = 2
    /\ candidate_sequence \in RenderSequences(MaxRenderSegments)
    /\ segment_index = 0
    /\ previous_tail_dbfs = NoTail
    /\ rendered_files = <<>>
    /\ IdleScoring
    /\ IdleBuilder
    /\ IdleSelection
    /\ IdleOptimizer
    /\ mix_plan = NoPlan
    /\ IdleExtender
    /\ IdleMerge
    /\ IdleEngineer

OtherThanRenderer == <<selectionVars, optimizerVars, mix_plan, extenderVars, mergeVars,
      engineerVars, builderVars, scoringVars>>

\* one iteration of the loop over enumerate(candidate_sequence)
RenderSegment ==
    /\ pc = "render"
    /\ segment_index < Len(candidate_sequence)
    /\ LET candidate == candidate_sequence[segment_index + 1]
           current_loudness == candidate.loudness.current
           gain_db == ContinuityGainDb(NormalizeGainDb(current_loudness), current_loudness,
                                       previous_tail_dbfs)
           tail_dbfs == TailAfterGain(candidate.loudness, gain_db)
       IN  IF candidate.track_index < 0 \/ candidate.track_index >= track_count
           THEN UNCHANGED <<previous_tail_dbfs, rendered_files>>
           ELSE /\ previous_tail_dbfs' = [known |-> TRUE, dbfs |-> tail_dbfs]
                /\ rendered_files' = Append(rendered_files,
                       [segment_index |-> segment_index, gain_db |-> gain_db,
                        tail_dbfs |-> tail_dbfs])
    /\ segment_index' = segment_index + 1
    /\ UNCHANGED <<pc, track_count, candidate_sequence>>
    /\ UNCHANGED OtherThanRenderer

\* return rendered_files
RenderReturn ==
    /\ pc = "render"
    /\ segment_index = Len(candidate_sequence)
    /\ pc' = "rendered"
    /\ UNCHANGED <<track_count, rendererVars>>
    /\ UNCHANGED OtherThanRenderer

NextRenderer ==
    \/ RenderSegment
    \/ RenderReturn

SpecRenderer == InitRenderer /\ [][NextRenderer]_vars

\* the clip the k-th rendered file was made from
ClipOfFile(k) == candidate_sequence[rendered_files[k].segment_index + 1].loudness

\* the gain of a clip from its own loudness alone
OwnGain(k) == Max(Db(-8), Min(Db(8), Db(-14) - ClipOfFile(k).current))

\* C28: the clips are rendered in the order of the sequence with one piece of
\* state, the tail loudness of the clip rendered last.  The first clip gets
\* the gain of its own loudness, clamp(-14 - loudness, -8, 8); clip k > 1 gets
\* that gain less 0.15 times the step from the tail loudness of clip k - 1
\* after its gain, clamped again; every gain lies in [-8, 8] dB.
C28_ContinuityFromPreviousTail ==
    /\ Len(rendered_files) = segment_index
    /\ previous_tail_dbfs.known <=> Len(rendered_files) > 0
    /\ \A k \in 1..Len(rendered_files) :
          LET file == rendered_files[k]
          IN  /\ file.segment_index = k - 1
              /\ file.gain_db >= Db(-8) /\ file.gain_db <= Db(8)
              /\ file.tail_dbfs
                   = (IF ClipOfFile(k).tail = Db(-80) THEN Db(-80)
                      ELSE ClipOfFile(k).tail + file.gain_db)
              /\ k = 1 => file.gain_db = OwnGain(k)
              /\ k > 1 =>
                    20 * file.gain_db
                      = Max(Db(-160), Min(Db(160),
                            20 * OwnGain(k)
                              - 3 * (ClipOfFile(k).current - rendered_files[k - 1].tail_dbfs)))
              /\ k = Len(rendered_files) => previous_tail_dbfs.dbfs = file.tail_dbfs

C28_Witness ==
    /\ pc = "rendered"
    /\ Len(rendered_files) = 3
    /\ rendered_files[1].gain_db = Db(-8)
    /\ rendered_files[2].gain_db # OwnGain(2)
    /\ rendered_files[2].gain_db > Db(-8) /\ rendered_files[2].gain_db < Db(8)
    /\ rendered_files[3].gain_db = Db(8)
    /\ 20 * OwnGain(3) - 3 * (ClipOfFile(3).current - rendered_files[2].tail_dbfs) > Db(160)

====
